---- MODULE Spec2Model ----
(***************************************************************************)
(* Super Bowl squares odds pipeline.                                       *)
(*                                                                         *)
(* Eight state machines share this module:                                 *)
(*   SvcSpec - the odds service as a library: buildSquareOdds with its     *)
(*             two cache layers and the memoized games loader, driven by   *)
(*             arbitrary callers.                                          *)
(*   FeedSpec - one fetchLiveGameSnapshot call per input and payloads,     *)
(*             and the poll delay armed from its snapshot.                 *)
(*   AppSpec - the App component: board state, the pre-game odds effect    *)
(*             and the self-rescheduling live poll effect.                 *)
(*   EngineSpec - buildRealtimeSquareOdds on one base model and board,     *)
(*             invoked along the snapshots of one game.                    *)
(*   SmartSpec - buildSmartDigitModel on every outcome of its secondary    *)
(*             loads.                                                      *)
(*   NormSpec - one normalizeMatrix call, pre-game or realtime.            *)
(*   LoaderSpec - one memoized source loader and the calls made on it.     *)
(*   PipelineSpec - the behaviours of SvcSpec and of EngineSpec.           *)
(* Time is Date.now() in milliseconds.                                     *)
(***************************************************************************)
EXTENDS Integers, Sequences, FiniteSets, TLC

VARIABLES
    now,              \* Date.now()
    modelMemoryCache, \* squareOddsService: Map cacheKey -> CachedEntry
    localStorage,     \* window.localStorage under the model cache prefix
    gamesPromise,     \* squareOddsService: memoized loadGames promise
    calls,            \* buildSquareOdds invocations awaiting (one per caller slot)
    settled,          \* the invocations that settled in the last step
    liveInput,        \* fetchLiveGameSnapshot: the call's input and responses
    live,             \* fetchLiveGameSnapshot: the call's outcome
    pollTimer,        \* the delay getLivePollIntervalMs gave for the outcome, 0 before
    app,              \* App: the component's React state
    oddsRuns,         \* App: pre-game effect instances awaiting buildSquareOdds, oldest first
    polls,            \* App: live poll effect instances (closure locals), oldest first
    lastStep,         \* App: what the last step did to the effects
    engine,           \* realtime engine: its inputs and the invocations made on them
    smart,            \* buildSmartDigitModel: one run's secondary inputs, weights and model
    norm,             \* normalizeMatrix: one call, its input matrix and its output
    loader            \* a memoized source loader: its memo and the calls made on it

svcVars == <<now, modelMemoryCache, localStorage, gamesPromise, calls, settled>>
feedVars == <<liveInput, live, pollTimer>>
appVars == <<app, oddsRuns, polls, lastStep>>
engVars == <<engine>>
smartVars == <<smart>>
normVars == <<norm>>
loaderVars == <<loader>>
vars == <<svcVars, feedVars, appVars, engVars, smartVars, normVars, loaderVars>>

----------------------------------------------------------------------------
(* Bounds *)

NumCalls == 2          \* concurrent buildSquareOdds callers
MaxTicks == 3          \* clock advances (each of half a TTL)

----------------------------------------------------------------------------
(* Program constants *)

MODEL_CACHE_TTL_MS == 1000 * 60 * 30
DIGIT_COUNT == 10

Tick == MODEL_CACHE_TTL_MS \div 2
Calls == 1 .. NumCalls

----------------------------------------------------------------------------
(* Team resolution.  A team string is modelled by its normalizeText image: *)
(* the sequence of lower-cased alphanumeric words.                         *)

NFL_TEAMS ==
    << [id |-> "SEA", name |-> "Seahawks"],
       [id |-> "NE",  name |-> "Patriots"] >>

TeamInputs == {"Seahawks", "SEA", "Seattle Seahawks", "Patriots", "ne", "Martians", ""}

\* The (home, away) strings callers pass.
MatchupInputs ==
    { <<"Seattle Seahawks", "ne">>, <<"Martians", "Patriots">>, <<"SEA", "">> }

normalizeText(s) ==
    CASE s = "Seahawks"         -> <<"seahawks">>
      [] s = "SEA"              -> <<"sea">>
      [] s = "Seattle Seahawks" -> <<"seattle", "seahawks">>
      [] s = "Patriots"         -> <<"patriots">>
      [] s = "NE"               -> <<"ne">>
      [] s = "ne"               -> <<"ne">>
      [] s = "Martians"         -> <<"martians">>
      [] OTHER                  -> <<>>

EndsWith(s, suffix) ==
    /\ Len(suffix) <= Len(s)
    /\ SubSeq(s, Len(s) - Len(suffix) + 1, Len(s)) = suffix

\* Array.prototype.find: the first index in a set of matching indexes, or 0.
FirstIndex(matching) ==
    IF matching = {} THEN 0
    ELSE CHOOSE i \in matching : \A j \in matching : i <= j

\* Index into NFL_TEAMS of the matched team, 0 when none matches.
findTeamByNameOrCode(teamNameOrCode) ==
    LET normalized == normalizeText(teamNameOrCode)
        Teams    == 1 .. Len(NFL_TEAMS)
        ById     == {i \in Teams : normalizeText(NFL_TEAMS[i].id) = normalized}
        ByName   == {i \in Teams : normalizeText(NFL_TEAMS[i].name) = normalized}
        BySuffix == {i \in Teams :
                        EndsWith(normalized, normalizeText(NFL_TEAMS[i].name))}
    IN  IF ById # {} THEN FirstIndex(ById)
        ELSE IF ByName # {} THEN FirstIndex(ByName)
        ELSE FirstIndex(BySuffix)

Unsupported == "UNSUPPORTED"

\* resolveTeamCode with an unmatched name silently defaulted to the first team.
resolveTeamCode_Defaulting(teamNameOrCode) ==
    LET matched == findTeamByNameOrCode(teamNameOrCode)
    IN  IF matched # 0 THEN NFL_TEAMS[matched].id ELSE NFL_TEAMS[1].id

\* The team code, or Unsupported where the code throws.
resolveTeamCode(teamNameOrCode) ==
    LET matched == findTeamByNameOrCode(teamNameOrCode)
    IN  IF matched # 0 THEN NFL_TEAMS[matched].id ELSE Unsupported

TeamCodes == {NFL_TEAMS[i].id : i \in 1 .. Len(NFL_TEAMS)}
CacheKeyOf(m) == <<resolveTeamCode(m[1]), resolveTeamCode(m[2])>>
CacheKeys == {CacheKeyOf(m) : m \in MatchupInputs}
                \ {CacheKeyOf(m) : m \in {n \in MatchupInputs : Unsupported \in {CacheKeyOf(n)[1], CacheKeyOf(n)[2]}}}
NoKey == <<Unsupported, Unsupported>>

----------------------------------------------------------------------------
(* Row / column labels and the board mapping *)

IdentityLabels == <<0, 1, 2, 3, 4, 5, 6, 7, 8, 9>>
ShuffledLabels == <<5, 0, 1, 2, 3, 4, 6, 7, 8, 9>>
OutOfRangeLabels == <<10, 1, 2, 3, 4, 5, 6, 7, 8, 9>>
ShortLabels == <<0, 1, 2, 3, 4, 5, 6, 7, 8>>

LabelInputs == {IdentityLabels, ShuffledLabels, OutOfRangeLabels, ShortLabels}

\* The (rowLabels, colLabels) pairs callers pass.
LabelPairInputs ==
    { <<IdentityLabels, IdentityLabels>>, <<ShuffledLabels, IdentityLabels>>,
      <<OutOfRangeLabels, IdentityLabels>> }

ValidDigit(d) == d >= 0 /\ d <= 9

\* The error mapDigitMatrixToBoard throws on these labels, "" when it returns.
MapLabelError(rowLabels, colLabels) ==
    IF Len(rowLabels) # DIGIT_COUNT \/ Len(colLabels) # DIGIT_COUNT
    THEN "Expected row and column labels to each have length 10."
    ELSE IF ~ValidDigit(rowLabels[1])
    THEN "Invalid row label while mapping digit probabilities."
    ELSE IF \E c \in 1 .. DIGIT_COUNT : ~ValidDigit(colLabels[c])
    THEN "Invalid column label while mapping digit probabilities."
    ELSE IF \E r \in 1 .. DIGIT_COUNT : ~ValidDigit(rowLabels[r])
    THEN "Invalid row label while mapping digit probabilities."
    ELSE ""

\* mapDigitMatrixToBoard, had it laid the digit matrix out in digit order
\* whatever the labels.
mapDigitMatrixToBoard_Unmapped(digitMatrix, rowLabels, colLabels, finalized) ==
    [matrix |-> digitMatrix, rowLabels |-> IdentityLabels,
     colLabels |-> IdentityLabels, finalized |-> finalized]

\* The board: the digit matrix re-indexed by the labels (cell values stay
\* symbolic: the matrix is named, not enumerated).
mapDigitMatrixToBoard(digitMatrix, rowLabels, colLabels, finalized) ==
    [matrix |-> digitMatrix, rowLabels |-> rowLabels, colLabels |-> colLabels,
     finalized |-> finalized]

NoBoard ==
    mapDigitMatrixToBoard([kind |-> "none", cell |-> <<>>], <<>>, <<>>, FALSE)

----------------------------------------------------------------------------
(* Models and results *)

\* A digit probability matrix: either the single-cell matrix with mass 1 at
\* cell (home digit, away digit), or the output of the named computation.
DigitMatrix(kind, cell) == [kind |-> kind, cell |-> cell]

NoMatrix == DigitMatrix("none", <<>>)
SimFallbackMatrix == DigitMatrix("buildSimulationMatrix(23,21)", <<>>)
BlendedMatrix == DigitMatrix("blendMatrices(baseline,team,simulation)", <<>>)

\* Numeric matrices: a function from (row digit, column digit) to a number.
\* The finite numbers are integers; NaN and the two infinities are values
\* outside the range of the finite entries.
Cells == (0 .. DIGIT_COUNT - 1) \X (0 .. DIGIT_COUNT - 1)
NaN == 1000003
PosInfinity == 1000001
NegInfinity == -1000001

isFinite(value) == value \notin {NaN, PosInfinity, NegInfinity}

\* Math.max(value, 0): NaN if the value is NaN.
MaxWithZero(value) ==
    IF value = NaN THEN NaN
    ELSE IF value = PosInfinity THEN PosInfinity
    ELSE IF value = NegInfinity THEN 0
    ELSE IF value > 0 THEN value ELSE 0

RECURSIVE SumOver(_, _)
SumOver(terms, cells) ==
    IF cells = {} THEN 0
    ELSE LET cell == CHOOSE c \in cells : TRUE
         IN  terms[cell] + SumOver(terms, cells \ {cell})

\* The sum of a matrix indexed by rows \X cols, row by row.
SumCells(terms, rows, cols) ==
    SumOver([r \in rows |-> SumOver([c \in cols |-> terms[<<r, c>>]], cols)], rows)

\* The floating-point sum of terms that are never negative: NaN if a term
\* is NaN, else Infinity if a term is Infinity.
Total(terms) ==
    IF \E c \in Cells : terms[c] = NaN THEN NaN
    ELSE IF \E c \in Cells : terms[c] = PosInfinity THEN PosInfinity
    ELSE SumCells(terms, 0 .. DIGIT_COUNT - 1, 0 .. DIGIT_COUNT - 1)

ZeroMatrix == [c \in Cells |-> 0]

\* A matrix of quotients entries[c] / total (NaN / total is NaN, Infinity /
\* total is Infinity).
Quotients(entries, total) == [entries |-> entries, total |-> total]
NoOutput == Quotients(ZeroMatrix, 0)

createUniformDigitMatrix == Quotients([c \in Cells |-> 1], 100)

\* normalizeMatrix of squareOddsService.ts.
normalizeMatrix(matrix) ==
    LET total == Total([c \in Cells |-> MaxWithZero(matrix[c])])
    IN  IF ~isFinite(total) \/ total <= 0 THEN createUniformDigitMatrix
        ELSE Quotients([c \in Cells |-> MaxWithZero(matrix[c])], total)

\* normalizeMatrix of realtimeSquareOddsService.ts: the total skips the
\* entries that are not finite, the quotients do not.
realtimeNormalizeMatrix(matrix) ==
    LET total == Total([c \in Cells |->
                          MaxWithZero(IF isFinite(matrix[c]) THEN matrix[c] ELSE 0)])
    IN  IF ~isFinite(total) \/ total <= 0 THEN createUniformDigitMatrix
        ELSE Quotients([c \in Cells |-> MaxWithZero(matrix[c])], total)

NoModel ==
    [digitProbabilities |-> NoMatrix, generatedAt |-> 0, sourceMode |-> "none",
     sourcesUsed |-> <<>>, warnings |-> <<>>,
     expectedHomePoints |-> 0, expectedAwayPoints |-> 0]

WarnGamesUnavailable ==
    "Unable to load NFL historical games dataset. Falling back to baseline simulation only."
WarnMoneylines == "Moneyline data could not be loaded. Market adjustments disabled."
WarnEspnTeams == "ESPN team metadata unavailable. Team-level API stats reduced."
WarnEspnStats ==
    "ESPN team stats unavailable. Expected-points model uses historical-only inputs."
WarnRecentForm ==
    "Recent form feed unavailable. Team trend model uses historical games only."
WarnSourcesUnavailable ==
    "Live sports data sources were unavailable. Using a mathematically generated baseline model."
ErrMalformedEntry == "TypeError: cannot read properties of undefined"

NoResult ==
    [status |-> "none", error |-> "", boardPercentages |-> NoBoard, model |-> NoModel]

Resolved(model, board) ==
    [status |-> "resolved", error |-> "", boardPercentages |-> board, model |-> model]

Rejected(message) ==
    [status |-> "rejected", error |-> message, boardPercentages |-> NoBoard,
     model |-> NoModel]

\* buildFallbackModel followed by the catch block's warnings.push: the
\* mapping inside buildFallbackModel may throw again, and nothing catches it.
buildFallbackModel(rowLabels, colLabels, message, t) ==
    IF MapLabelError(rowLabels, colLabels) # ""
    THEN Rejected(MapLabelError(rowLabels, colLabels))
    ELSE Resolved(
           [digitProbabilities |-> SimFallbackMatrix, generatedAt |-> t,
            sourceMode |-> "baseline", sourcesUsed |-> <<"fallback_model">>,
            warnings |-> <<WarnSourcesUnavailable, message>>,
            expectedHomePoints |-> 23, expectedAwayPoints |-> 21],
           mapDigitMatrixToBoard(SimFallbackMatrix, rowLabels, colLabels, FALSE))

\* The return statement of buildSquareOdds inside its try block.
ReturnMapped(model, rowLabels, colLabels, t) ==
    IF MapLabelError(rowLabels, colLabels) # ""
    THEN buildFallbackModel(rowLabels, colLabels,
                            MapLabelError(rowLabels, colLabels), t)
    ELSE Resolved(model,
           mapDigitMatrixToBoard(model.digitProbabilities, rowLabels, colLabels, TRUE))

----------------------------------------------------------------------------
(* The two cache layers *)

NoEntry == [kind |-> "none", expiresAt |-> 0, value |-> NoModel]
CorruptPayload == [kind |-> "corrupt", expiresAt |-> 0, value |-> NoModel]
\* A payload that parses as JSON to an object without expiresAt and value.
MalformedPayload == [kind |-> "malformed", expiresAt |-> 0, value |-> NoModel]

InitialPayloads == {NoEntry, CorruptPayload, MalformedPayload}

\* JSON.parse on the stored string, had it never thrown.
ParseThrows_Never(raw) == FALSE

\* JSON.parse throws on the stored string (as does reading expiresAt of a
\* parsed null).
ParseThrows(raw) == raw.kind = "corrupt"

\* readCachedEntry with both expiry comparisons off by one instant.
readCachedEntry_ServeAtExpiry(mem, store, key, t) ==
    LET inMemory == mem[key]
        raw == store[key]
    IN  IF inMemory.kind = "entry" /\ inMemory.expiresAt >= t
        THEN [ret |-> inMemory, mem |-> mem, store |-> store]
        ELSE IF raw.kind = "none"
        THEN [ret |-> NoEntry, mem |-> mem, store |-> store]
        ELSE IF ParseThrows(raw)
        THEN [ret |-> NoEntry, mem |-> mem,
              store |-> [store EXCEPT ![key] = NoEntry]]
        ELSE IF raw.kind = "entry" /\ raw.expiresAt < t
        THEN [ret |-> NoEntry, mem |-> mem,
              store |-> [store EXCEPT ![key] = NoEntry]]
        ELSE [ret |-> raw, mem |-> [mem EXCEPT ![key] = raw], store |-> store]

\* readCachedEntry: the entry returned and both layers afterwards.
readCachedEntry(mem, store, key, t) ==
    LET inMemory == mem[key]
        raw == store[key]
    IN  IF inMemory.kind = "entry" /\ inMemory.expiresAt > t
        THEN [ret |-> inMemory, mem |-> mem, store |-> store]
        ELSE IF raw.kind = "none"
        THEN [ret |-> NoEntry, mem |-> mem, store |-> store]
        ELSE IF ParseThrows(raw)
        THEN [ret |-> NoEntry, mem |-> mem,
              store |-> [store EXCEPT ![key] = NoEntry]]
        ELSE IF raw.kind = "entry" /\ raw.expiresAt <= t
        THEN [ret |-> NoEntry, mem |-> mem,
              store |-> [store EXCEPT ![key] = NoEntry]]
        ELSE [ret |-> raw, mem |-> [mem EXCEPT ![key] = raw], store |-> store]

\* writeCachedEntry; storageOk is whether localStorage.setItem succeeded.
writeCachedEntry(mem, store, key, value, t, storageOk) ==
    LET entry == [kind |-> "entry", expiresAt |-> t + MODEL_CACHE_TTL_MS,
                  value |-> value]
    IN  [mem |-> [mem EXCEPT ![key] = entry],
         store |-> IF storageOk THEN [store EXCEPT ![key] = entry] ELSE store]

----------------------------------------------------------------------------
(* fetchLiveGameSnapshot (liveGameFeedService) *)

Null == -1   \* a null clock field

LiveStatuses == {"pregame", "in_progress", "halftime", "final", "postponed", "unknown"}

\* An HTTP response as the fetcher sees it: "fail" (network error, timeout or
\* non-2xx), "miss" (a payload in which no competition parses to a core for
\* the requested teams), or "core" with the parsed status and clock.
Response(kind, status, remaining) ==
    LET period == IF remaining = Null \/ remaining >= 2700 THEN 1
                  ELSE IF remaining >= 1800 THEN 2
                  ELSE IF remaining >= 900 THEN 3 ELSE 4
    IN  [kind |-> kind, status |-> status, period |-> period,
         secondsRemainingInPeriod |->
             IF remaining = Null THEN Null ELSE remaining - (4 - period) * 900,
         secondsRemainingGame |-> remaining, homeScore |-> 0, awayScore |-> 0]

FailResponse == Response("fail", "unknown", Null)
MissResponse == Response("miss", "unknown", Null)

CoreSamples ==
    { Response("core", "pregame", 3600),
      Response("core", "in_progress", 2400),
      Response("core", "in_progress", 1201),
      Response("core", "in_progress", 1200),
      Response("core", "in_progress", 481),
      Response("core", "in_progress", 480),
      Response("core", "in_progress", Null),
      Response("core", "halftime", 1800),
      Response("core", "final", 0),
      Response("core", "postponed", 0),
      Response("core", "unknown", Null) }

NoOverride == ""
SuperBowlEventId == "401772988"
OtherEventId == "401772000"
EventIdOverrides == {NoOverride, SuperBowlEventId}

\* A payload as the provider returns it to one request: the request failed
\* ("fail"), the payload holds no event ("miss"), or it holds one event
\* ("core") with its id, the abbreviations of its competitors, the core its
\* competition parses to once the competitors are found, and the number of
\* plays collectSummaryPlays finds in it.
Payload(response, eventId, competitors, plays) ==
    [kind |-> response.kind, parsed |-> response, eventId |-> eventId,
     competitors |-> competitors, plays |-> plays]

FailPayload == Payload(FailResponse, "", {}, 0)
MissPayload == Payload(MissResponse, "", {}, 0)

\* parseCoreFromCompetition: null unless both requested codes are among the
\* competitors.
parseCoreFromCompetition(payload, homeTeamCode, awayTeamCode) ==
    IF /\ payload.kind = "core"
       /\ homeTeamCode \in payload.competitors
       /\ awayTeamCode \in payload.competitors
    THEN payload.parsed
    ELSE MissResponse

\* findEventInScoreboard: events with another id are skipped under an
\* override; the competitions of the others go through
\* parseCoreFromCompetition.
findEventInScoreboard(payload, homeTeamCode, awayTeamCode, eventIdOverride) ==
    IF eventIdOverride # NoOverride /\ payload.eventId # eventIdOverride
    THEN MissResponse
    ELSE parseCoreFromCompetition(payload, homeTeamCode, awayTeamCode)

\* parseSummaryCore finding no core in any summary.
parseSummaryCore_Never(payload, homeTeamCode, awayTeamCode) == MissResponse

\* parseSummaryCore: the first competition of the header that parses.
parseSummaryCore(payload, homeTeamCode, awayTeamCode) ==
    parseCoreFromCompetition(payload, homeTeamCode, awayTeamCode)

NoLive ==
    [outcome |-> "none", error |-> "", core |-> MissResponse, coreFrom |-> "none",
     playsFrom |-> "none", plays |-> 0, sentiment |-> "none", requests |-> <<>>]

\* The scoreboard loop: the core found (or a miss) and the requests issued.
\* A failed request is swallowed by the loop's catch and the next URL tried.
ScoreboardLoop(sb1, sb2) ==
    IF sb1.kind = "core"
    THEN [core |-> sb1, requests |-> <<"scoreboard?dates">>]
    ELSE [core |-> IF sb2.kind = "core" THEN sb2 ELSE MissResponse,
          requests |-> <<"scoreboard?dates", "scoreboard">>]

fetchLiveGameSnapshot(homeTeamName, awayTeamName, eventIdOverride, sb1, sb2, summary) ==
    IF resolveTeamCode(homeTeamName) = Unsupported
       \/ resolveTeamCode(awayTeamName) = Unsupported
    THEN [NoLive EXCEPT !.outcome = "rejected", !.error = "Unsupported team"]
    ELSE
      LET homeTeamCode == resolveTeamCode(homeTeamName)
          awayTeamCode == resolveTeamCode(awayTeamName)
          Found(payload) ==
              IF payload.kind = "fail" THEN FailResponse
              ELSE findEventInScoreboard(payload, homeTeamCode, awayTeamCode,
                                         eventIdOverride)
          loop == ScoreboardLoop(Found(sb1), Found(sb2))
          hasEventId == eventIdOverride # NoOverride \/ loop.core.kind = "core"
          parsedFromSummary ==
              IF summary.kind = "fail" THEN FailResponse
              ELSE parseSummaryCore(summary, homeTeamCode, awayTeamCode)
          core == IF parsedFromSummary.kind = "core" THEN parsedFromSummary
                  ELSE loop.core
          plays == IF summary.kind = "fail" THEN 0 ELSE summary.plays
          requests == loop.requests \o <<"summary">>
      IN  IF ~hasEventId
          THEN [NoLive EXCEPT !.outcome = "null", !.requests = loop.requests]
          ELSE IF core.kind # "core"
          THEN [NoLive EXCEPT !.outcome = "null", !.requests = requests]
          ELSE [outcome |-> "snapshot", error |-> "", core |-> core,
                coreFrom |-> IF parsedFromSummary.kind = "core" THEN "summary"
                             ELSE "scoreboard",
                playsFrom |-> IF summary.kind = "fail" THEN "none" ELSE "summary",
                plays |-> plays,
                sentiment |-> IF plays > 0 THEN "analyzed" ELSE "neutral",
                requests |-> requests]

\* getLivePollIntervalMs with the thresholds exclusive.
getLivePollIntervalMs_Exclusive(snapshot) ==
    IF snapshot.kind = "none" THEN 45000
    ELSE IF snapshot.status = "in_progress"
    THEN LET remaining == snapshot.secondsRemainingGame
         IN  IF remaining # Null /\ remaining < 8 * 60 THEN 5000
             ELSE IF remaining # Null /\ remaining < 20 * 60 THEN 8000
             ELSE 12000
    ELSE IF snapshot.status = "halftime" THEN 20000
    ELSE IF snapshot.status = "pregame" THEN 45000
    ELSE 60000

\* A null snapshot is the record of kind "none".
getLivePollIntervalMs(snapshot) ==
    IF snapshot.kind = "none" THEN 45000
    ELSE IF snapshot.status = "in_progress"
    THEN LET remaining == snapshot.secondsRemainingGame
         IN  IF remaining # Null /\ remaining <= 8 * 60 THEN 5000
             ELSE IF remaining # Null /\ remaining <= 20 * 60 THEN 8000
             ELSE 12000
    ELSE IF snapshot.status = "halftime" THEN 20000
    ELSE IF snapshot.status = "pregame" THEN 45000
    ELSE 60000

----------------------------------------------------------------------------
(* buildSquareOdds as a sequence of steps between its awaits *)

IdleCall ==
    [pc |-> "idle", homeTeamName |-> "", awayTeamName |-> "", key |-> NoKey,
     rowLabels |-> <<>>, colLabels |-> <<>>,
     served |-> NoEntry, servedAt |-> 0, gamesOutcome |-> "none",
     loaderCalls |-> {}, requests |-> {}, cacheRead |-> FALSE,
     evicted |-> "none", cacheWritten |-> FALSE, result |-> NoResult]

NoneSettled == [c \in Calls |-> IdleCall]

Computing(c) == calls[c].pc \in {"awaitGames", "awaitSecondary"}

\* What the secondary sources delivered to one computation.
SecondaryCases ==
    [moneylines : {"rows", "empty", "fail"}, espnTeams : BOOLEAN,
     espnStats : BOOLEAN, recentForm : BOOLEAN]

\* The cases the service state machine draws from.
SvcSecondaryCases ==
    { [moneylines |-> "rows", espnTeams |-> TRUE, espnStats |-> TRUE,
       recentForm |-> TRUE],
      [moneylines |-> "fail", espnTeams |-> FALSE, espnStats |-> FALSE,
       recentForm |-> FALSE] }

Opt(cond, x) == IF cond THEN <<x>> ELSE <<>>

\* buildSmartDigitModel when loadGames rejected, had it reported the games
\* dataset as its source.
GamesFallbackModel_GamesSource(t) ==
    [digitProbabilities |-> SimFallbackMatrix, generatedAt |-> t,
     sourceMode |-> "baseline", sourcesUsed |-> <<"nflverse_games">>,
     warnings |-> <<WarnGamesUnavailable>>,
     expectedHomePoints |-> 23, expectedAwayPoints |-> 21]

\* buildSmartDigitModel when loadGames rejected.
GamesFallbackModel(t) ==
    [digitProbabilities |-> SimFallbackMatrix, generatedAt |-> t,
     sourceMode |-> "baseline", sourcesUsed |-> <<"fallback_model">>,
     warnings |-> <<WarnGamesUnavailable>>,
     expectedHomePoints |-> 23, expectedAwayPoints |-> 21]

SampleExpectedPoints == <<27, 20>>

\* What the secondary loads leave buildSmartDigitModel with: no stats for
\* either team, no recent form for either team, no market probability for
\* one of the teams (the load failed or holds no row for that team).
StatsMissing(sec) == ~sec.espnStats
FormMissing(sec) == ~sec.recentForm
MarketMissing(sec) == sec.moneylines # "rows"

\* Variant: the market shift is taken from the team weight.
RawBlendWeights_MarketFromTeam(sec) ==
    [baseline |-> 45 + (IF StatsMissing(sec) THEN 5 ELSE 0)
                     + (IF FormMissing(sec) THEN 3 ELSE 0)
                     + (IF MarketMissing(sec) THEN 2 ELSE 0),
     team |-> 35 - (IF FormMissing(sec) THEN 3 ELSE 0)
                 - (IF MarketMissing(sec) THEN 2 ELSE 0),
     sim |-> 20 - (IF StatsMissing(sec) THEN 5 ELSE 0)]

\* Lines 1127-1142: the three weights before clamping, in hundredths.
RawBlendWeights(sec) ==
    [baseline |-> 45 + (IF StatsMissing(sec) THEN 5 ELSE 0)
                     + (IF FormMissing(sec) THEN 3 ELSE 0)
                     + (IF MarketMissing(sec) THEN 2 ELSE 0),
     team |-> 35 - (IF FormMissing(sec) THEN 3 ELSE 0),
     sim |-> 20 - (IF StatsMissing(sec) THEN 5 ELSE 0)
                - (IF MarketMissing(sec) THEN 2 ELSE 0)]

\* Lines 1144-1153: the clamps and the division by the total; the weights
\* handed to blendMatrices, in hundredths.
BlendWeights(sec) ==
    LET raw == RawBlendWeights(sec)
        baselineWeight == IF raw.baseline < 30 THEN 30
                          ELSE IF raw.baseline > 70 THEN 70 ELSE raw.baseline
        teamWeight == IF raw.team < 15 THEN 15
                      ELSE IF raw.team > 45 THEN 45 ELSE raw.team
        simWeight == IF raw.sim < 8 THEN 8
                     ELSE IF raw.sim > 35 THEN 35 ELSE raw.sim
        totalWeight == baselineWeight + teamWeight + simWeight
    IN  [raw |-> raw,
         clamped |-> [baseline |-> baselineWeight, team |-> teamWeight,
                      sim |-> simWeight],
         baseline |-> (baselineWeight * 100) \div totalWeight,
         team |-> (teamWeight * 100) \div totalWeight,
         sim |-> (simWeight * 100) \div totalWeight]

NoWeights == BlendWeights([moneylines |-> "rows", espnTeams |-> TRUE,
                           espnStats |-> TRUE, recentForm |-> TRUE])

\* buildSmartDigitModel after the games dataset loaded.
SmartDigitModel(sec, t) ==
    LET sourcesUsed ==
            <<"nflverse_games">>
            \o Opt(sec.moneylines # "fail", "nflverse_closing_lines")
            \o Opt(sec.espnStats, "espn_team_stats")
            \o Opt(sec.recentForm, "thesportsdb_recent_form")
        warnings ==
            Opt(sec.moneylines = "fail", WarnMoneylines)
            \o Opt(~sec.espnTeams, WarnEspnTeams)
            \o Opt(~sec.espnStats, WarnEspnStats)
            \o Opt(~sec.recentForm, WarnRecentForm)
    IN  [digitProbabilities |-> BlendedMatrix, generatedAt |-> t,
         sourceMode |-> IF Len(sourcesUsed) >= 3 THEN "full" ELSE "baseline",
         sourcesUsed |-> sourcesUsed, warnings |-> warnings,
         expectedHomePoints |-> SampleExpectedPoints[1],
         expectedAwayPoints |-> SampleExpectedPoints[2]]

\* loadGames as seen by a caller: the promise afterwards and whether this
\* call issued the request.
loadGames(promise) ==
    IF promise = "none"
    THEN [promise |-> "pending", requested |-> TRUE]
    ELSE [promise |-> promise, requested |-> FALSE]

Settle(call, result) == [call EXCEPT !.pc = "done", !.result = result]

\* buildSquareOdds up to its first await (or to its return).
BuildSquareOddsStart(c, homeTeamName, awayTeamName, rowLabels, colLabels) ==
    /\ calls[c].pc = "idle"
    /\ \A d \in 1 .. (c - 1) : calls[d].pc # "idle"   \* slots are only names
    /\ UNCHANGED <<now, feedVars, engVars, smartVars, normVars, loaderVars, appVars>>
    /\ LET homeTeamCode == resolveTeamCode(homeTeamName)
           awayTeamCode == resolveTeamCode(awayTeamName)
           key == <<homeTeamCode, awayTeamCode>>
           base == [IdleCall EXCEPT !.homeTeamName = homeTeamName,
                                    !.awayTeamName = awayTeamName,
                                    !.rowLabels = rowLabels,
                                    !.colLabels = colLabels]
       IN  IF homeTeamCode = Unsupported \/ awayTeamCode = Unsupported
           THEN /\ settled' = [NoneSettled EXCEPT ![c] =
                     Settle(base, Rejected("Unsupported team name or code"))]
                /\ UNCHANGED <<modelMemoryCache, localStorage, gamesPromise, calls>>
           ELSE
             LET rd == readCachedEntry(modelMemoryCache, localStorage, key, now)
                 keyed == [base EXCEPT !.key = key, !.cacheRead = TRUE,
                                       !.evicted = IF rd.store[key] # localStorage[key]
                                                   THEN localStorage[key].kind
                                                   ELSE "none"]
                 hit == [keyed EXCEPT !.served = rd.ret, !.servedAt = now]
                 lg == loadGames(gamesPromise)
             IN  /\ modelMemoryCache' = rd.mem
                 /\ localStorage' = rd.store
                 /\ IF rd.ret.kind = "entry"
                    THEN /\ settled' = [NoneSettled EXCEPT ![c] =
                              Settle(hit, ReturnMapped(rd.ret.value, rowLabels,
                                                         colLabels, now))]
                         /\ UNCHANGED <<gamesPromise, calls>>
                    ELSE IF rd.ret.kind = "malformed"
                    THEN /\ settled' = [NoneSettled EXCEPT ![c] =
                              Settle(hit, buildFallbackModel(rowLabels, colLabels,
                                                ErrMalformedEntry, now))]
                         /\ UNCHANGED <<gamesPromise, calls>>
                    ELSE /\ gamesPromise' = lg.promise
                         /\ settled' = NoneSettled
                         /\ calls' = [calls EXCEPT ![c] =
                              [keyed EXCEPT
                                 !.pc = IF gamesPromise = "ok" THEN "awaitSecondary"
                                        ELSE "awaitGames",
                                 !.gamesOutcome = IF gamesPromise = "ok" THEN "ok"
                                                  ELSE "none",
                                 !.loaderCalls =
                                     IF gamesPromise = "ok"
                                     THEN {"loadGames", "secondary"}
                                     ELSE {"loadGames"},
                                 !.requests = IF lg.requested THEN {"games.csv"}
                                              ELSE {}]]

\* The code after `await buildSmartDigitModel(...)` in buildSquareOdds.
FinishComputed(call, computed, t) ==
    Settle([call EXCEPT !.cacheWritten = TRUE],
           ReturnMapped(computed, call.rowLabels, call.colLabels, t))

\* The games request settles; every caller awaiting the shared promise
\* continues in the same turn.
GamesSettle(ok, storageOk) ==
    /\ gamesPromise = "pending"
    /\ UNCHANGED <<now, feedVars, engVars, smartVars, normVars, loaderVars, appVars>>
    /\ gamesPromise' = IF ok THEN "ok" ELSE "none"
    /\ IF ok
       THEN /\ calls' = [c \in Calls |->
                  IF calls[c].pc = "awaitGames"
                  THEN [calls[c] EXCEPT !.pc = "awaitSecondary",
                          !.gamesOutcome = "ok",
                          !.loaderCalls = @ \cup {"secondary"}]
                  ELSE calls[c]]
            /\ settled' = NoneSettled
            /\ UNCHANGED <<modelMemoryCache, localStorage>>
       ELSE LET waiting == {c \in Calls : calls[c].pc = "awaitGames"}
                keys == {calls[c].key : c \in waiting}
                computed == GamesFallbackModel(now)
                Written(k) == writeCachedEntry(modelMemoryCache, localStorage, k,
                                               computed, now, storageOk)
            IN  /\ calls' = [c \in Calls |->
                      IF c \in waiting THEN IdleCall ELSE calls[c]]
                /\ settled' = [c \in Calls |->
                      IF c \in waiting
                      THEN FinishComputed([calls[c] EXCEPT !.gamesOutcome = "fail"],
                                          computed, now)
                      ELSE IdleCall]
                /\ modelMemoryCache' = [k \in CacheKeys |->
                      IF k \in keys THEN Written(k).mem[k] ELSE modelMemoryCache[k]]
                /\ localStorage' = [k \in CacheKeys |->
                      IF k \in keys THEN Written(k).store[k] ELSE localStorage[k]]

\* The secondary sources of one computation have all settled.
SecondarySettle(c, sec, storageOk) ==
    /\ calls[c].pc = "awaitSecondary"
    /\ UNCHANGED <<now, feedVars, engVars, smartVars, normVars, loaderVars, appVars, gamesPromise>>
    /\ LET computed == SmartDigitModel(sec, now)
           w == writeCachedEntry(modelMemoryCache, localStorage, calls[c].key,
                                 computed, now, storageOk)
       IN  /\ calls' = [calls EXCEPT ![c] = IdleCall]
           /\ settled' = [NoneSettled EXCEPT ![c] =
                             FinishComputed(calls[c], computed, now)]
           /\ modelMemoryCache' = w.mem
           /\ localStorage' = w.store

\* The page reloads: module state is lost, localStorage stays.
Reload ==
    /\ calls' = [c \in Calls |-> IdleCall]
    /\ settled' = NoneSettled
    /\ modelMemoryCache' = [k \in CacheKeys |-> NoEntry]
    /\ gamesPromise' = "none"
    /\ UNCHANGED <<now, feedVars, engVars, smartVars, normVars, loaderVars, appVars, localStorage>>

AdvanceClock ==
    /\ now + Tick <= MaxTicks * Tick
    /\ now' = now + Tick
    /\ settled' = NoneSettled
    /\ UNCHANGED <<modelMemoryCache, localStorage, gamesPromise, calls, feedVars, engVars, smartVars, normVars, loaderVars, appVars>>

----------------------------------------------------------------------------
(* The App component (App.tsx), in an admin session                       *)

MaxOddsRuns == 2       \* buildSquareOdds promises the App awaits at once
MaxPolls == 2          \* poll effect closures alive at once
MaxFailedCycles == 2   \* consecutive failed cycles counted (saturating)

OddsSlots == 1 .. MaxOddsRuns
PollSlots == 1 .. MaxPolls

homeTeam == "Seahawks"
awayTeam == "Patriots"
INITIAL_ROWS == IdentityLabels
INITIAL_COLS == IdentityLabels
\* import.meta.env.DEV is false in a production build.
ENABLE_LOCAL_LIVE_SIMULATOR == FALSE
\* VITE_NFL_EVENT_ID is not set.
LIVE_EVENT_ID_OVERRIDE == NoOverride

NoSnapshot == Response("none", "unknown", Null)
NoTimer == 0

TOTAL_REGULATION_SECONDS == 4 * 15 * 60

clamp(value, min, max) ==
    IF value < min THEN min ELSE IF value > max THEN max ELSE value

\* calculateRemainingGameSeconds of the feed: null only for a live or unknown
\* status whose display clock did not parse.
calculateRemainingGameSeconds(status, period, secondsInPeriod) ==
    IF status \in {"final", "postponed"} THEN 0
    ELSE IF status = "pregame" THEN 4 * 15 * 60
    ELSE IF status = "halftime" THEN 2 * 15 * 60
    ELSE IF secondsInPeriod = Null THEN Null
    ELSE IF period <= 4
    THEN (4 - clamp(period, 1, 4)) * 15 * 60 + clamp(secondsInPeriod, 0, 15 * 60)
    ELSE clamp(secondsInPeriod, 0, 15 * 60)

\* The snapshot parseCoreFromCompetition builds from a status, a period, a
\* parsed clock (Null when it does not parse) and the two scores.
Snapshot(status, period, secondsInPeriod, homeScore, awayScore) ==
    [kind |-> "core", status |-> status, period |-> period,
     secondsRemainingInPeriod |-> secondsInPeriod,
     secondsRemainingGame |->
         calculateRemainingGameSeconds(status, period, secondsInPeriod),
     homeScore |-> homeScore, awayScore |-> awayScore]

\* The clock part of buildFeatureVector (the play-derived features are not
\* modelled: the snapshots carry no plays).
buildFeatureVector(snapshot) ==
    LET remainingGameSeconds ==
            IF snapshot.secondsRemainingGame # Null
            THEN snapshot.secondsRemainingGame
            ELSE IF snapshot.status = "final" THEN 0
            ELSE IF snapshot.status = "pregame" THEN TOTAL_REGULATION_SECONDS
            ELSE clamp(TOTAL_REGULATION_SECONDS - (snapshot.period - 1) * 900,
                       0, TOTAL_REGULATION_SECONDS)
    IN  [remainingGameSeconds |-> remainingGameSeconds,
         elapsedGameSeconds |->
             clamp(TOTAL_REGULATION_SECONDS - remainingGameSeconds,
                   0, TOTAL_REGULATION_SECONDS)]

NoFeatureVector == [remainingGameSeconds |-> 0, elapsedGameSeconds |-> 0]

\* Blend weights are exact fractions of WeightScale, the least denominator
\* under which every term of getLiveBlendWeight is an integer
\* (hundredths of 1/3600, 1/56, 1/21 and 1/720).
WeightScale == 2520000
Weight(hundredths) == hundredths * (WeightScale \div 100)

Abs(x) == IF x < 0 THEN -x ELSE x

getLiveBlendWeight(featureVector, snapshot) ==
    LET unit == WeightScale \div 100
        elapsed == clamp(featureVector.elapsedGameSeconds,
                         0, TOTAL_REGULATION_SECONDS)
        remaining == clamp(featureVector.remainingGameSeconds,
                           0, TOTAL_REGULATION_SECONDS)
        score == clamp(snapshot.homeScore + snapshot.awayScore, 0, 56)
        scoreDiff == clamp(Abs(snapshot.homeScore - snapshot.awayScore), 0, 21)
        lateGame == clamp(12 * 60 - featureVector.remainingGameSeconds, 0, 12 * 60)
        blendedWeight ==
            Weight(36)
            + elapsed * 34 * (unit \div TOTAL_REGULATION_SECONDS)
            + (TOTAL_REGULATION_SECONDS - remaining) * 27
                  * (unit \div TOTAL_REGULATION_SECONDS)
            + score * 10 * (unit \div 56)
            + scoreDiff * 5 * (unit \div 21)
            + lateGame * 8 * (unit \div (12 * 60))
    IN  IF snapshot.status = "pregame" THEN Weight(20)
        ELSE IF featureVector.remainingGameSeconds <= 2 * 60 THEN Weight(99)
        ELSE IF featureVector.remainingGameSeconds <= 5 * 60 THEN Weight(95)
        ELSE IF featureVector.remainingGameSeconds <= 10 * 60 THEN Weight(90)
        ELSE clamp(blendedWeight, Weight(36), Weight(95))

\* Lines 656 and 665-671: the weight buildRealtimeSquareOdds blends with.
liveBlendWeight(snapshot) ==
    IF snapshot.status \in {"final", "postponed"} THEN WeightScale
    ELSE getLiveBlendWeight(buildFeatureVector(snapshot), snapshot)

\* JavaScript's % keeps the sign of the dividend.
Remainder(x, n) == IF x >= 0 THEN x % n ELSE -((-x) % n)

\* Variant: the two digits exchanged.
buildDeterministicFinalMatrix_Swapped(homeScore, awayScore) ==
    DigitMatrix("buildDeterministicFinalMatrix",
                <<(Remainder(awayScore, 10) + 10) % 10,
                  (Remainder(homeScore, 10) + 10) % 10>>)

buildDeterministicFinalMatrix(homeScore, awayScore) ==
    DigitMatrix("buildDeterministicFinalMatrix",
                <<(Remainder(homeScore, 10) + 10) % 10,
                  (Remainder(awayScore, 10) + 10) % 10>>)

\* Entry [rowDigit][colDigit] of a single-cell matrix.
MatrixCell(matrix, rowDigit, colDigit) ==
    IF <<rowDigit, colDigit>> = matrix.cell THEN 1 ELSE 0

\* Sample digit distributions, in tenths: the model does not compute the
\* Poisson and historical distributions, it samples normalized matrices.
SampleHomeDist == <<3, 2, 1, 1, 0, 0, 0, 1, 1, 1>>
SampleAwayDist == <<2, 1, 1, 1, 1, 1, 1, 0, 1, 1>>

\* Entry [rowDigit][colDigit] of a normalized digit matrix, in hundredths:
\* the single-cell matrix, the fallback simulation (an outer product) or any
\* other normalized matrix.
Entry(matrix, rowDigit, colDigit) ==
    IF matrix.cell # <<>> THEN 100 * MatrixCell(matrix, rowDigit, colDigit)
    ELSE IF matrix = SimFallbackMatrix
    THEN SampleHomeDist[rowDigit + 1] * SampleAwayDist[colDigit + 1]
    ELSE SampleAwayDist[rowDigit + 1] * SampleHomeDist[colDigit + 1]

\* Percentage (rowIndex, colIndex) of a mapped board:
\* digitMatrix[rowLabel][colLabel] * 100, rescaled by
\* finalizeBoardPercentages to a total of 100 when the board is finalized.
BoardTotal(board) ==
    SumCells([p \in (1 .. DIGIT_COUNT) \X (1 .. DIGIT_COUNT) |->
                 Entry(board.matrix, board.rowLabels[p[1]], board.colLabels[p[2]])],
             1 .. DIGIT_COUNT, 1 .. DIGIT_COUNT)

\* Variant: rows and columns exchanged.
BoardValues_Transposed(board) ==
    LET total == BoardTotal(board)
    IN  [p \in (1 .. DIGIT_COUNT) \X (1 .. DIGIT_COUNT) |->
           LET mapped == Entry(board.matrix, board.rowLabels[p[2]],
                               board.colLabels[p[1]])
           IN  IF ~board.finalized THEN mapped
               ELSE IF total <= 0 THEN 1
               ELSE clamp((mapped * 100) \div total, 0, 100)]

\* The whole board, by (rowIndex, colIndex).
BoardValues(board) ==
    LET total == BoardTotal(board)
    IN  [p \in (1 .. DIGIT_COUNT) \X (1 .. DIGIT_COUNT) |->
           LET mapped == Entry(board.matrix, board.rowLabels[p[1]],
                               board.colLabels[p[2]])
           IN  IF ~board.finalized THEN mapped
               ELSE IF total <= 0 THEN 1
               ELSE clamp((mapped * 100) \div total, 0, 100)]

BoardCell(board, rowIndex, colIndex) ==
    LET mapped == Entry(board.matrix, board.rowLabels[rowIndex],
                        board.colLabels[colIndex])
    IN  IF ~board.finalized THEN mapped
        ELSE IF BoardTotal(board) <= 0 THEN 1
        ELSE clamp((mapped * 100) \div BoardTotal(board), 0, 100)

\* buildSimulationMatrix of the engine: seeded from the snapshot's own fields.
LiveSimulationMatrix == DigitMatrix("buildSimulationMatrix(snapshot)", <<>>)
RealtimeMatrix == DigitMatrix("blendMatrices(baseModel,liveSimulation)", <<>>)

\* blendMatrices: with the live weight at 1 the base is multiplied by 0 and
\* the normalized output is the live matrix.
blendMatrices(base, liveMatrix, liveWeight) ==
    IF clamp(liveWeight, 0, WeightScale) = WeightScale THEN liveMatrix
    ELSE IF clamp(liveWeight, 0, WeightScale) = 0 THEN base
    ELSE RealtimeMatrix

\* The expected points of a snapshot that is not over: the clamped mix of the
\* base expectation and estimateAdditionalPoints, a value in 0 .. 70 the
\* model does not compute.
EstimatedPoints == 70

LiveSources == <<"espn_live_scoreboard", "espn_live_summary", "live_commentary_sentiment">>
WarnLivePregame ==
    "Live feed connected but game has not started. Realtime adjustments are minimal."

NoRealtime ==
    [status |-> "none", error |-> "", boardPercentages |-> NoBoard, model |-> NoModel,
     liveStatus |-> "unknown", featureVector |-> NoFeatureVector]

RECURSIVE appendUniqueSources(_, _)
appendUniqueSources(existing, additions) ==
    IF additions = <<>> THEN existing
    ELSE appendUniqueSources(
           IF \E i \in 1 .. Len(existing) : existing[i] = Head(additions)
           THEN existing ELSE Append(existing, Head(additions)),
           Tail(additions))

\* buildRealtimeSquareOdds invoked at time t: throws (status "rejected") when
\* the labels cannot be mapped, else the live-adjusted board under the
\* caller's labels.
buildRealtimeSquareOdds(baseModel, snapshot, rowLabels, colLabels, t) ==
    LET over == snapshot.status \in {"final", "postponed"}
        weight == liveBlendWeight(snapshot)
        liveDigitMatrix ==
            IF over
            THEN buildDeterministicFinalMatrix(snapshot.homeScore, snapshot.awayScore)
            ELSE LiveSimulationMatrix
        digitProbabilities ==
            blendMatrices(baseModel.model.digitProbabilities, liveDigitMatrix, weight)
        literal == weight >= 999 * (WeightScale \div 1000)
    IN  IF MapLabelError(rowLabels, colLabels) # ""
        THEN [NoRealtime EXCEPT !.status = "rejected",
                                !.error = MapLabelError(rowLabels, colLabels)]
        ELSE [status |-> "resolved", error |-> "",
              boardPercentages |->
                  mapDigitMatrixToBoard(digitProbabilities, rowLabels, colLabels, TRUE),
              model |->
                  [digitProbabilities |-> digitProbabilities,
                   generatedAt |-> t,
                   sourceMode |-> baseModel.model.sourceMode,
                   sourcesUsed |->
                       appendUniqueSources(baseModel.model.sourcesUsed, LiveSources),
                   warnings |-> baseModel.model.warnings
                                \o Opt(snapshot.status = "pregame", WarnLivePregame),
                   expectedHomePoints |->
                       IF literal THEN snapshot.homeScore ELSE EstimatedPoints,
                   expectedAwayPoints |->
                       IF literal THEN snapshot.awayScore ELSE EstimatedPoints],
              liveStatus |-> snapshot.status,
              featureVector |-> buildFeatureVector(snapshot)]

\* The persisted board a payload normalizes to (normalizePersistedState with
\* coerceLabels: any ten finite numbers pass as labels).
PersistedStates ==
    [isLocked : BOOLEAN, gameResult : BOOLEAN, labels : LabelPairInputs]

\* The React state after useState initialisation from a persisted board.
InitialState(persistedState) ==
    [isLocked |-> persistedState.isLocked,
     gameResult |-> persistedState.gameResult,
     rowLabels |-> persistedState.labels[1],
     colLabels |-> persistedState.labels[2],
     squareOdds |-> NoResult, squareOddsError |-> "", isSquareOddsLoading |-> FALSE,
     realtimeSquareOdds |-> NoRealtime, liveSnapshot |-> NoSnapshot,
     isLiveFeedLoading |-> FALSE, liveFeedError |-> ""]

shouldComputeSquareOdds(a) == a.isLocked /\ ~a.gameResult
isUsingLocalLiveSimulator == ENABLE_LOCAL_LIVE_SIMULATOR

\* A pre-game effect instance: its closure's cancelled flag, kept while the
\* buildSquareOdds promise it awaits is pending.
NewRun == [cancelled |-> FALSE]

\* A poll effect instance, kept while it has a request in flight or a timer
\* pending: the closure locals cancelled, timer, inFlight and failureCount.
\* timer is the delay of the pending timeout (NoTimer when none is pending);
\* failedCycles counts the consecutive cycles that failed.  The deps a live
\* instance captured equal the current state: any change of them tears the
\* instance down.
NewPoll ==
    [cancelled |-> FALSE, inFlight |-> FALSE, timer |-> NoTimer,
     failureCount |-> 0, failedCycles |-> 0]

Remove(seq, i) == SubSeq(seq, 1, i - 1) \o SubSeq(seq, i + 1, Len(seq))

\* Lines 776-778: pollLiveFeed up to its await.
PollEnter(inst) ==
    IF inst.cancelled \/ inst.inFlight THEN inst
    ELSE [inst EXCEPT !.inFlight = TRUE, !.timer = NoTimer]

\* Cleanup of the pre-game effect: the pending run is marked cancelled.
CleanupOddsRuns(runs) ==
    [i \in 1 .. Len(runs) |-> [runs[i] EXCEPT !.cancelled = TRUE]]

\* Cleanup of the poll effect: cancelled is set and the timer cleared.  An
\* instance with no request in flight has nothing left to run; the count of
\* failed cycles is kept for scheduled retries only.
CleanupPolls(p) ==
    LET pending == SelectSeq(p, LAMBDA inst : inst.inFlight)
    IN  [i \in 1 .. Len(pending) |->
            [pending[i] EXCEPT !.cancelled = TRUE, !.timer = NoTimer,
                               !.failedCycles = 0]]

\* The pre-game odds effect re-running on state a.
RunOddsEffect(a, runs) ==
    LET cleaned == CleanupOddsRuns(runs)
    IN  IF ~shouldComputeSquareOdds(a)
        THEN [ok |-> TRUE,
              app |-> [a EXCEPT !.isSquareOddsLoading = FALSE, !.squareOddsError = "",
                                !.squareOdds = NoResult,
                                !.realtimeSquareOdds = NoRealtime,
                                !.liveSnapshot = NoSnapshot,
                                !.isLiveFeedLoading = FALSE, !.liveFeedError = ""],
              runs |-> cleaned]
        ELSE [ok |-> Len(cleaned) < MaxOddsRuns,
              app |-> [a EXCEPT !.isSquareOddsLoading = TRUE, !.squareOddsError = "",
                                !.realtimeSquareOdds = NoRealtime,
                                !.liveSnapshot = NoSnapshot, !.liveFeedError = ""],
              runs |-> Append(cleaned, NewRun)]

\* The live poll effect re-running on state a.
RunPollEffect(a, p) ==
    LET cleaned == CleanupPolls(p)
    IN  IF ~shouldComputeSquareOdds(a) \/ a.squareOdds = NoResult
        THEN [ok |-> TRUE,
              app |-> [a EXCEPT !.isLiveFeedLoading = FALSE, !.liveFeedError = "",
                                !.liveSnapshot = NoSnapshot,
                                !.realtimeSquareOdds = NoRealtime],
              polls |-> cleaned]
        ELSE IF isUsingLocalLiveSimulator
        THEN [ok |-> TRUE,
              app |-> [a EXCEPT !.isLiveFeedLoading = FALSE, !.liveFeedError = ""],
              polls |-> cleaned]
        ELSE [ok |-> Len(cleaned) < MaxPolls,
              app |-> [a EXCEPT !.isLiveFeedLoading = TRUE],
              polls |-> Append(cleaned, PollEnter(NewPoll))]

\* The effects a commit runs, in declaration order.  The poll effect also
\* re-runs when the pre-game effect replaced squareOdds.
AfterEffects(a, runs, p, oddsDeps, pollDeps) ==
    LET pollRuns == pollDeps \/ (oddsDeps /\ RunOddsEffect(a, runs).app.squareOdds
                                               # a.squareOdds)
        o == IF oddsDeps THEN RunOddsEffect(a, runs)
             ELSE [ok |-> TRUE, app |-> a, runs |-> runs]
        l == IF pollRuns THEN RunPollEffect(o.app, p)
             ELSE [ok |-> TRUE, app |-> o.app, polls |-> p]
    IN  [ok |-> o.ok /\ l.ok, app |-> l.app, oddsRuns |-> o.runs, polls |-> l.polls,
         lastStep |-> IF pollRuns THEN "pollEffect" ELSE "none"]

Commit(a, oddsDeps, pollDeps) ==
    LET next == AfterEffects(a, oddsRuns, polls, oddsDeps, pollDeps)
    IN  /\ next.ok
        /\ app' = next.app
        /\ oddsRuns' = next.oddsRuns
        /\ polls' = next.polls
        /\ lastStep' = next.lastStep
        /\ UNCHANGED <<svcVars, feedVars, engVars, smartVars, normVars, loaderVars>>

\* What the shuffle can return for an array: the sampled label arrays that
\* are permutations of it.
ShuffleSamples(array) ==
    { l \in LabelInputs :
        /\ Len(l) = Len(array)
        /\ \A d \in 0 .. 10 :
              Cardinality({i \in 1 .. Len(l) : l[i] = d})
                = Cardinality({i \in 1 .. Len(array) : array[i] = d}) }

\* The lock button.
ToggleLock ==
    LET a == [app EXCEPT !.isLocked = ~@]
        changed == shouldComputeSquareOdds(a) # shouldComputeSquareOdds(app)
    IN  Commit(a, changed, changed)

HandleShuffle(rowLabels, colLabels) ==
    /\ ~app.isLocked
    /\ rowLabels \in ShuffleSamples(app.rowLabels)
    /\ colLabels \in ShuffleSamples(app.colLabels)
    /\ Commit([app EXCEPT !.rowLabels = rowLabels, !.colLabels = colLabels],
              TRUE, TRUE)

\* shouldComputeSquareOdds is false afterwards, so the re-run effects only
\* repeat their resets even where a dep was in fact unchanged.
HandleResetBoard ==
    Commit([app EXCEPT !.rowLabels = INITIAL_ROWS, !.colLabels = INITIAL_COLS,
                       !.isLocked = FALSE, !.gameResult = FALSE],
           TRUE, TRUE)

HandleFinalizeGame ==
    /\ app.isLocked
    /\ LET a == [app EXCEPT !.gameResult = TRUE]
           changed == shouldComputeSquareOdds(a) # shouldComputeSquareOdds(app)
       IN  Commit(a, changed, changed)

HandleResetFinalScore ==
    LET a == [app EXCEPT !.gameResult = FALSE]
        changed == shouldComputeSquareOdds(a) # shouldComputeSquareOdds(app)
    IN  Commit(a, changed, changed)

\* A remote payload that differs from the last saved one: the label arrays
\* it carries are new objects, so both effects re-run.
ApplyPersistedState(next) ==
    Commit([app EXCEPT !.isLocked = next.isLocked, !.rowLabels = next.labels[1],
                       !.colLabels = next.labels[2], !.gameResult = next.gameResult],
           TRUE, TRUE)

\* The models buildSquareOdds computes or serves for the App's matchup.
AppModels ==
    { GamesFallbackModel(0),
      SmartDigitModel([moneylines |-> "rows", espnTeams |-> TRUE, espnStats |-> TRUE,
                       recentForm |-> TRUE], 0) }

\* Line 729 (and 733, 741): the pre-game callbacks' cancelled check.
OddsRunCancelled(run) == run.cancelled

\* The buildSquareOdds promise of run i settles: then / catch / finally.
OddsSettle(i, model) ==
    /\ i <= Len(oddsRuns)
    /\ LET result == ReturnMapped(model, app.rowLabels, app.colLabels, now)
           runs == Remove(oddsRuns, i)
       IN  IF OddsRunCancelled(oddsRuns[i])
           THEN /\ oddsRuns' = runs
                /\ lastStep' = IF oddsRuns[i].cancelled THEN "oddsDiscarded" ELSE "none"
                /\ UNCHANGED <<app, polls, svcVars, feedVars, engVars, smartVars, normVars, loaderVars>>
           ELSE LET a == IF result.status = "resolved"
                         THEN [app EXCEPT !.squareOdds = result,
                                          !.isSquareOddsLoading = FALSE]
                         ELSE [app EXCEPT !.squareOddsError = result.error,
                                          !.isSquareOddsLoading = FALSE]
                    next == AfterEffects(a, runs, polls, FALSE,
                                         result.status = "resolved")
                IN  /\ next.ok
                    /\ app' = next.app
                    /\ oddsRuns' = next.oddsRuns
                    /\ polls' = next.polls
                    /\ lastStep' = IF oddsRuns[i].cancelled THEN "oddsDiscarded"
                                   ELSE next.lastStep
                    /\ UNCHANGED <<svcVars, feedVars, engVars, smartVars, normVars, loaderVars>>

\* The responses the provider gives the App's poll requests.
AppResponses ==
    { FailResponse, MissResponse, Response("core", "pregame", 3600),
      Response("core", "in_progress", 480), Response("core", "final", 0) }

Min(a, b) == IF a <= b THEN a ELSE b

RetryDelay(failureCount) == Min(60000, 12000 + failureCount * 8000)

\* Lines 790 and 822: pollLiveFeed's cancelled check after the await, had it
\* been left out.
PollCancelled_Ignored(inst) == FALSE

\* Lines 790 and 822: pollLiveFeed's cancelled check after the await.
PollCancelled(inst) == inst.cancelled

\* Lines 821-836: the catch block, then finally.
CatchPath(a, inst, message) ==
    LET failureCount == inst.failureCount + 1
    IN  [app |-> [a EXCEPT !.liveFeedError = message, !.isLiveFeedLoading = FALSE],
         inst |-> [inst EXCEPT !.failureCount = failureCount,
                               !.timer = RetryDelay(failureCount),
                               !.inFlight = FALSE],
         threw |-> TRUE]

\* Lines 792-800 and finally, had the null branch returned without a timer.
NullPath_NoReschedule(a, inst) ==
    [app |-> [a EXCEPT !.liveFeedError = "", !.liveSnapshot = NoSnapshot,
                       !.realtimeSquareOdds = NoRealtime,
                       !.isLiveFeedLoading = FALSE],
     inst |-> [inst EXCEPT !.failureCount = 0, !.timer = NoTimer, !.inFlight = FALSE],
     threw |-> FALSE]

\* Lines 792-800 and finally: the fetch resolved to null.
NullPath(a, inst) ==
    [app |-> [a EXCEPT !.liveFeedError = "", !.liveSnapshot = NoSnapshot,
                       !.realtimeSquareOdds = NoRealtime,
                       !.isLiveFeedLoading = FALSE],
     inst |-> [inst EXCEPT !.failureCount = 0, !.timer = 45000, !.inFlight = FALSE],
     threw |-> FALSE]

\* Lines 792-820 and finally: the fetch resolved to a snapshot.
SnapshotPath(a, inst, snapshot) ==
    LET live_ == snapshot.status \in {"in_progress", "halftime", "final"}
        nextRealtime ==
            buildRealtimeSquareOdds(a.squareOdds, snapshot, a.rowLabels,
                                    a.colLabels, now)
        seen == [a EXCEPT !.liveFeedError = "", !.liveSnapshot = snapshot]
    IN  IF live_ /\ nextRealtime.status = "rejected"
        THEN CatchPath(seen, [inst EXCEPT !.failureCount = 0], nextRealtime.error)
        ELSE [app |-> [seen EXCEPT
                         !.realtimeSquareOdds =
                             IF live_ THEN nextRealtime ELSE NoRealtime,
                         !.isLiveFeedLoading = FALSE],
              inst |-> [inst EXCEPT !.failureCount = 0,
                                    !.timer = getLivePollIntervalMs(snapshot),
                                    !.inFlight = FALSE],
              threw |-> FALSE]

\* pollLiveFeed from its await to its end, for an instance not cancelled.
PollCompleted(a, inst, fetch) ==
    IF fetch.outcome = "rejected" THEN CatchPath(a, inst, fetch.error)
    ELSE IF fetch.outcome = "null" THEN NullPath(a, inst)
    ELSE SnapshotPath(a, inst, fetch.core)

\* Every request the fetch issued failed on the network.
NetworkDown(fetch, sb1, sb2, summary) ==
    \A i \in 1 .. Len(fetch.requests) :
        (CASE fetch.requests[i] = "scoreboard?dates" -> sb1
           [] fetch.requests[i] = "scoreboard" -> sb2
           [] OTHER -> summary).kind = "fail"

\* What the poll loop sees of one fetchLiveGameSnapshot call.
Seen(fetch, networkDown) ==
    [outcome |-> fetch.outcome, error |-> fetch.error, core |-> fetch.core,
     networkDown |-> networkDown]

\* The provider's payload for the App's game: the event of the board's teams.
AppPayload(response) == Payload(response, SuperBowlEventId, TeamCodes, 0)

\* What one fetchLiveGameSnapshot call of the poll loop can settle to: its
\* outcome, and whether every request it issued failed on the network.
PollFetches ==
    { Seen(fetchLiveGameSnapshot(homeTeam, awayTeam, LIVE_EVENT_ID_OVERRIDE,
                                 AppPayload(r[1]), AppPayload(r[2]),
                                 AppPayload(r[3])),
           NetworkDown(fetchLiveGameSnapshot(homeTeam, awayTeam,
                                             LIVE_EVENT_ID_OVERRIDE,
                                             AppPayload(r[1]), AppPayload(r[2]),
                                             AppPayload(r[3])),
                       r[1], r[2], r[3])) :
      r \in AppResponses \X AppResponses \X AppResponses }

\* The fetchLiveGameSnapshot call of instance i settles.  A cancelled
\* instance that returns has nothing left to run.
PollSettle(i, settledFetch) ==
    /\ i <= Len(polls) /\ polls[i].inFlight
    /\ LET done == PollCompleted(app, polls[i], settledFetch)
           failed == done.threw \/ settledFetch.networkDown
       IN  IF PollCancelled(polls[i])
           THEN /\ polls' = Remove(polls, i)
                /\ app' = app
           ELSE /\ polls' = [polls EXCEPT ![i] =
                               [done.inst EXCEPT !.failedCycles =
                                   IF failed THEN Min(@ + 1, MaxFailedCycles) ELSE 0]]
                /\ app' = done.app
    /\ lastStep' = IF polls[i].cancelled THEN "pollDiscarded" ELSE "none"
    /\ UNCHANGED <<oddsRuns, svcVars, feedVars, engVars, smartVars, normVars, loaderVars>>

\* The timeout of instance i fires: pollLiveFeed runs up to its await.
TimerFire(i) ==
    /\ i <= Len(polls) /\ polls[i].timer # NoTimer
    /\ polls' = [polls EXCEPT ![i] = PollEnter(@)]
    /\ app' = IF polls[i].cancelled \/ polls[i].inFlight THEN app
              ELSE [app EXCEPT !.isLiveFeedLoading = TRUE]
    /\ lastStep' = "none"
    /\ UNCHANGED <<oddsRuns, svcVars, feedVars, engVars, smartVars, normVars, loaderVars>>

DefaultState ==
    InitialState([isLocked |-> FALSE, gameResult |-> FALSE,
                  labels |-> <<INITIAL_ROWS, INITIAL_COLS>>])

AppIdle ==
    /\ app = DefaultState
    /\ oddsRuns = <<>>
    /\ polls = <<>>
    /\ lastStep = "none"

----------------------------------------------------------------------------
(* The odds service state machine *)

NoLiveInput ==
    [homeTeamName |-> "", awayTeamName |-> "", eventIdOverride |-> NoOverride,
     sb1 |-> MissPayload, sb2 |-> MissPayload, summary |-> MissPayload]

FeedIdle == liveInput = NoLiveInput /\ live = NoLive /\ pollTimer = 0

\* No realtime input chosen, no invocation made.
NoEngine ==
    [baseModel |-> NoResult, rowLabels |-> <<>>, colLabels |-> <<>>,
     snapshot |-> NoSnapshot, invocations |-> <<>>]

EngineIdle == engine = NoEngine

\* No normalizeMatrix call made.
NoNorm == [which |-> "none", input |-> ZeroMatrix, output |-> NoOutput]

NormIdle == norm = NoNorm

\* No loader chosen, no call made.
NoLoader ==
    [name |-> "none", memo |-> "none", waiting |-> 0, calls |-> 0,
     requests |-> 0, failures |-> 0, lastCall |-> "none"]

LoaderIdle == loader = NoLoader

\* No buildSmartDigitModel run made.
NoSmart ==
    [sec |-> [moneylines |-> "rows", espnTeams |-> TRUE, espnStats |-> TRUE,
              recentForm |-> TRUE],
     weights |-> NoWeights, model |-> NoModel]

SmartIdle == smart = NoSmart

SvcInit ==
    /\ now = 0
    /\ modelMemoryCache = [k \in CacheKeys |-> NoEntry]
    /\ localStorage \in [CacheKeys -> InitialPayloads]
    /\ gamesPromise = "none"
    /\ calls = [c \in Calls |-> IdleCall]
    /\ settled = NoneSettled
    /\ FeedIdle
    /\ AppIdle
    /\ EngineIdle
    /\ SmartIdle
    /\ NormIdle
    /\ LoaderIdle

SvcNext ==
    \/ \E c \in Calls, m \in MatchupInputs, l \in LabelPairInputs :
          BuildSquareOddsStart(c, m[1], m[2], l[1], l[2])
    \/ \E ok \in BOOLEAN, storageOk \in BOOLEAN : GamesSettle(ok, storageOk)
    \/ \E c \in Calls, sec \in SvcSecondaryCases, storageOk \in BOOLEAN :
          SecondarySettle(c, sec, storageOk)
    \/ Reload
    \/ AdvanceClock

SvcSpec == SvcInit /\ [][SvcNext]_vars

----------------------------------------------------------------------------
(* One fetchLiveGameSnapshot call on every input and response combination *)

\* Competitors of a game other than the requested one.
OtherTeams == {"KC", "PHI"}

\* The payloads a request can get: a failure, no event, the requested game
\* in each sampled state, another game of the requested teams, and the
\* overridden event id carried by a game of other teams.
Payloads ==
    {FailPayload, MissPayload}
        \cup {Payload(r, SuperBowlEventId, TeamCodes, 0) : r \in CoreSamples}
        \cup { Payload(Response("core", "in_progress", 2400), OtherEventId,
                       TeamCodes, 0),
               Payload(Response("core", "in_progress", 1200), SuperBowlEventId,
                       OtherTeams, 0),
               Payload(Response("core", "final", 0), OtherEventId, OtherTeams, 0) }

\* The summary endpoint's payloads: the same, and some that carry plays.
SummaryPayloads ==
    Payloads
        \cup { Payload(Response("core", "in_progress", 1200), SuperBowlEventId,
                       TeamCodes, 3),
               Payload(Response("core", "in_progress", 480), SuperBowlEventId,
                       OtherTeams, 3) }

LiveInputs ==
    [homeTeamName : {"Seahawks", "Martians"}, awayTeamName : {"Patriots", ""},
     eventIdOverride : EventIdOverrides,
     sb1 : Payloads, sb2 : Payloads, summary : SummaryPayloads]

FetchLive ==
    /\ live.outcome = "none"
    /\ live' = fetchLiveGameSnapshot(liveInput.homeTeamName, liveInput.awayTeamName,
                                     liveInput.eventIdOverride, liveInput.sb1,
                                     liveInput.sb2, liveInput.summary)
    /\ UNCHANGED <<liveInput, pollTimer, svcVars, appVars, engVars, smartVars, normVars, loaderVars>>

\* The poll loop arms its next timeout from the snapshot it got.
SchedulePoll ==
    /\ live.outcome = "snapshot" /\ pollTimer = 0
    /\ pollTimer' = getLivePollIntervalMs(live.core)
    /\ UNCHANGED <<liveInput, live, svcVars, appVars, engVars, smartVars, normVars, loaderVars>>

FeedInit ==
    /\ liveInput \in LiveInputs
    /\ live = NoLive
    /\ pollTimer = 0
    /\ now = 0
    /\ modelMemoryCache = [k \in CacheKeys |-> NoEntry]
    /\ localStorage = [k \in CacheKeys |-> NoEntry]
    /\ gamesPromise = "none"
    /\ calls = [c \in Calls |-> IdleCall]
    /\ settled = NoneSettled
    /\ AppIdle
    /\ EngineIdle
    /\ SmartIdle
    /\ NormIdle
    /\ LoaderIdle

FeedNext == FetchLive \/ SchedulePoll

FeedSpec == FeedInit /\ [][FeedNext]_vars

----------------------------------------------------------------------------
(* The App state machine *)

\* The component mounts on the board loaded from storage and runs its effects.
AppInit ==
    /\ \E persistedState \in PersistedStates :
          LET next == AfterEffects(InitialState(persistedState), <<>>, <<>>,
                                   TRUE, TRUE)
          IN  /\ app = next.app
              /\ oddsRuns = next.oddsRuns
              /\ polls = next.polls
    /\ lastStep = "none"
    /\ now = 0
    /\ modelMemoryCache = [k \in CacheKeys |-> NoEntry]
    /\ localStorage = [k \in CacheKeys |-> NoEntry]
    /\ gamesPromise = "none"
    /\ calls = [c \in Calls |-> IdleCall]
    /\ settled = NoneSettled
    /\ FeedIdle
    /\ EngineIdle
    /\ SmartIdle
    /\ NormIdle
    /\ LoaderIdle

AppNext ==
    \/ ToggleLock
    \/ \E l \in LabelPairInputs : HandleShuffle(l[1], l[2])
    \/ HandleResetBoard
    \/ HandleFinalizeGame
    \/ HandleResetFinalScore
    \/ \E next \in PersistedStates : ApplyPersistedState(next)
    \/ \E i \in OddsSlots, model \in AppModels : OddsSettle(i, model)
    \/ \E i \in PollSlots, settledFetch \in PollFetches : PollSettle(i, settledFetch)
    \/ \E i \in PollSlots : TimerFire(i)

AppSpec == AppInit /\ [][AppNext]_vars

\* Timers fire and requests settle (every request is bounded by its abort
\* timeout).
AppFairSpec ==
    /\ AppSpec
    /\ \A i \in PollSlots :
          /\ WF_vars(TimerFire(i))
          /\ WF_vars(\E settledFetch \in PollFetches : PollSettle(i, settledFetch))

----------------------------------------------------------------------------
(* The realtime engine on one base model and board, along one game *)

\* The base results and labels the App passes to the engine.
EngineInputs ==
    { [baseModel |-> ReturnMapped(model, l[1], l[2], 0),
       rowLabels |-> l[1], colLabels |-> l[2]] :
        model \in AppModels,
        l \in { m \in LabelPairInputs : MapLabelError(m[1], m[2]) = "" } }
    \cup
    { [baseModel |-> ReturnMapped(GamesFallbackModel(0), IdentityLabels,
                                  IdentityLabels, 0),
       rowLabels |-> OutOfRangeLabels, colLabels |-> IdentityLabels] }

\* Snapshots of one game, from kickoff to the final whistle.
EngineSnapshots ==
    { Snapshot("pregame", 1, 900, 0, 0),
      Snapshot("in_progress", 1, Null, 0, 0),
      Snapshot("in_progress", 2, 300, 7, 0),
      Snapshot("halftime", 2, 0, 7, 7),
      Snapshot("in_progress", 3, 900, 14, 10),
      Snapshot("unknown", 3, Null, 14, 10),
      Snapshot("in_progress", 4, 601, 35, 14),
      Snapshot("in_progress", 4, 600, 35, 14),
      Snapshot("in_progress", 4, 300, 35, 28),
      Snapshot("in_progress", 4, 120, 35, 35),
      Snapshot("in_progress", 4, Null, 35, 35),
      Snapshot("in_progress", 5, 900, 35, 35),
      Snapshot("in_progress", 5, Null, 35, 35),
      Snapshot("in_progress", 6, Null, 35, 35),
      Snapshot("final", 4, 0, 14, 10),
      Snapshot("final", 5, 0, 38, 35),
      Snapshot("postponed", 1, 0, 0, 0) }

\* The order in which the provider reports a game: pregame, then the
\* periods in turn with the period clock running down, then over.
Phase(snapshot) ==
    IF snapshot.status = "pregame" THEN 0
    ELSE IF snapshot.status \in {"final", "postponed"} THEN 2 ELSE 1

Later(earlier, later) ==
    /\ later.homeScore >= earlier.homeScore
    /\ later.awayScore >= earlier.awayScore
    /\ \/ Phase(earlier) < Phase(later)
       \/ /\ Phase(earlier) = 1
          /\ Phase(later) = 1
          /\ \/ earlier.period < later.period
             \/ /\ earlier.period = later.period
                /\ Null \notin {earlier.secondsRemainingInPeriod,
                                  later.secondsRemainingInPeriod}
                /\ later.secondsRemainingInPeriod
                      <= earlier.secondsRemainingInPeriod

\* One call of the exported buildRealtimeSquareOdds on the current snapshot.
InvokeRealtime ==
    /\ Len(engine.invocations) < 2
    /\ engine' =
          [engine EXCEPT !.invocations =
              Append(@, [snapshot |-> engine.snapshot,
                         liveBlendWeight |-> liveBlendWeight(engine.snapshot),
                         result |-> buildRealtimeSquareOdds(
                                        engine.baseModel, engine.snapshot,
                                        engine.rowLabels, engine.colLabels, now)])]
    /\ UNCHANGED <<svcVars, feedVars, appVars, smartVars, normVars, loaderVars>>

\* The next poll sees the game further on.
GameProgresses(snapshot) ==
    /\ snapshot # engine.snapshot
    /\ Later(engine.snapshot, snapshot)
    /\ engine' = [engine EXCEPT !.snapshot = snapshot]
    /\ UNCHANGED <<svcVars, feedVars, appVars, smartVars, normVars, loaderVars>>

EngineInit ==
    /\ \E input \in EngineInputs, snapshot \in EngineSnapshots :
          engine = [baseModel |-> input.baseModel, rowLabels |-> input.rowLabels,
                    colLabels |-> input.colLabels, snapshot |-> snapshot,
                    invocations |-> <<>>]
    /\ now = 0
    /\ modelMemoryCache = [k \in CacheKeys |-> NoEntry]
    /\ localStorage = [k \in CacheKeys |-> NoEntry]
    /\ gamesPromise = "none"
    /\ calls = [c \in Calls |-> IdleCall]
    /\ settled = NoneSettled
    /\ FeedIdle
    /\ AppIdle
    /\ SmartIdle
    /\ NormIdle
    /\ LoaderIdle

EngineNext ==
    \/ InvokeRealtime
    \/ \E snapshot \in EngineSnapshots : GameProgresses(snapshot)
    \/ AdvanceClock

EngineSpec == EngineInit /\ [][EngineNext]_vars

----------------------------------------------------------------------------
(* buildSmartDigitModel on every outcome of its secondary loads *)

\* buildSmartDigitModel, once the games dataset has loaded, from the
\* secondary loads to its return.
BuildSmartDigitModel ==
    /\ smart.model = NoModel
    /\ smart' = [smart EXCEPT !.weights = BlendWeights(smart.sec),
                              !.model = SmartDigitModel(smart.sec, now)]
    /\ UNCHANGED <<svcVars, feedVars, appVars, engVars, normVars, loaderVars>>

SmartInit ==
    /\ \E sec \in SecondaryCases :
          smart = [sec |-> sec, weights |-> NoWeights, model |-> NoModel]
    /\ now = 0
    /\ modelMemoryCache = [k \in CacheKeys |-> NoEntry]
    /\ localStorage = [k \in CacheKeys |-> NoEntry]
    /\ gamesPromise = "none"
    /\ calls = [c \in Calls |-> IdleCall]
    /\ settled = NoneSettled
    /\ FeedIdle
    /\ AppIdle
    /\ EngineIdle
    /\ NormIdle
    /\ LoaderIdle

SmartNext ==
    \/ BuildSmartDigitModel
    \/ AdvanceClock

SmartSpec == SmartInit /\ [][SmartNext]_vars

----------------------------------------------------------------------------
(* The two normalizeMatrix functions on sample matrices *)

\* Matrices before normalization: counts, an all-zero matrix and a matrix
\* of negative entries, each as it is and with one entry replaced.
NormBases ==
    { ZeroMatrix, [c \in Cells |-> (c[1] + 2 * c[2]) % 4], [c \in Cells |-> -1] }

NormInputs ==
    NormBases
    \cup { [base EXCEPT ![c] = value] :
              base \in NormBases, c \in {<<0, 0>>, <<4, 0>>, <<9, 9>>},
              value \in {NaN, PosInfinity, NegInfinity, -5, 7} }

NormalizeMatrix ==
    /\ norm.output = NoOutput
    /\ norm' = [norm EXCEPT !.output =
                    IF norm.which = "realtime"
                    THEN realtimeNormalizeMatrix(norm.input)
                    ELSE normalizeMatrix(norm.input)]
    /\ UNCHANGED <<svcVars, feedVars, appVars, engVars, smartVars, loaderVars>>

NormInit ==
    /\ \E which \in {"pregame", "realtime"}, input \in NormInputs :
          norm = [which |-> which, input |-> input, output |-> NoOutput]
    /\ now = 0
    /\ modelMemoryCache = [k \in CacheKeys |-> NoEntry]
    /\ localStorage = [k \in CacheKeys |-> NoEntry]
    /\ gamesPromise = "none"
    /\ calls = [c \in Calls |-> IdleCall]
    /\ settled = NoneSettled
    /\ FeedIdle
    /\ AppIdle
    /\ EngineIdle
    /\ SmartIdle
    /\ LoaderIdle

NormNext == NormalizeMatrix

NormSpec == NormInit /\ [][NormNext]_vars

----------------------------------------------------------------------------
(* The memoized source loaders of squareOddsService, one per behaviour *)

MaxLoaderCalls == 4   \* calls made on the loader

Loaders ==
    {"loadGames", "loadClosingMoneylines", "getEspnTeams", "getEspnTeamStats",
     "getSportsDbRecentForm"}

\* What the loader's memo holds once its request has failed: loadGames,
\* loadClosingMoneylines and getEspnTeams null their promise variable in
\* .catch and rethrow; getEspnTeamStats and getSportsDbRecentForm turn the
\* failure into null with .catch(() => null) and leave the promise in the map.
MemoAfterFailure(name) ==
    IF name \in {"loadGames", "loadClosingMoneylines", "getEspnTeams"}
    THEN "none"
    ELSE "null"

\* A call of the loader with the one argument of this behaviour: a memoized
\* promise is returned as it is, pending or settled; without one the request
\* is issued and its promise memoized.
LoaderCall ==
    /\ loader.calls < MaxLoaderCalls
    /\ loader' =
          IF loader.memo = "none"
          THEN [loader EXCEPT !.memo = "pending", !.waiting = 1,
                              !.calls = @ + 1, !.requests = @ + 1,
                              !.lastCall = "requested"]
          ELSE IF loader.memo = "pending"
          THEN [loader EXCEPT !.waiting = @ + 1, !.calls = @ + 1,
                              !.lastCall = "shared"]
          ELSE [loader EXCEPT !.calls = @ + 1,
                              !.lastCall = IF loader.memo = "null"
                                           THEN "replayedNull" ELSE "replayedValue"]
    /\ UNCHANGED <<svcVars, feedVars, appVars, engVars, smartVars, normVars>>

\* The request in flight settles and every caller awaiting it continues.
LoaderSettle(ok) ==
    /\ loader.memo = "pending"
    /\ loader' = [loader EXCEPT
                    !.memo = IF ok THEN "value" ELSE MemoAfterFailure(loader.name),
                    !.waiting = 0,
                    !.failures = IF ok THEN @ ELSE @ + 1,
                    !.lastCall = "none"]
    /\ UNCHANGED <<svcVars, feedVars, appVars, engVars, smartVars, normVars>>

LoaderInit ==
    /\ \E name \in Loaders : loader = [NoLoader EXCEPT !.name = name]
    /\ now = 0
    /\ modelMemoryCache = [k \in CacheKeys |-> NoEntry]
    /\ localStorage = [k \in CacheKeys |-> NoEntry]
    /\ gamesPromise = "none"
    /\ calls = [c \in Calls |-> IdleCall]
    /\ settled = NoneSettled
    /\ FeedIdle
    /\ AppIdle
    /\ EngineIdle
    /\ SmartIdle
    /\ NormIdle

LoaderNext ==
    \/ LoaderCall
    \/ \E ok \in BOOLEAN : LoaderSettle(ok)

LoaderSpec == LoaderInit /\ [][LoaderNext]_vars

----------------------------------------------------------------------------
(* The pre-game service and the realtime engine, either one per behaviour *)

PipelineInit == SvcInit \/ EngineInit

PipelineNext ==
    \/ EngineIdle /\ SvcNext
    \/ ~EngineIdle /\ EngineNext

PipelineSpec == PipelineInit /\ [][PipelineNext]_vars

----------------------------------------------------------------------------
(* Claims about the odds service *)

Started(r) == r.pc # "idle"
UnsupportedInput(r) ==
    findTeamByNameOrCode(r.homeTeamName) = 0 \/ findTeamByNameOrCode(r.awayTeamName) = 0
LabelsMappable(r) == MapLabelError(r.rowLabels, r.colLabels) = ""

\* C5: a buildSquareOdds call whose home or away string matches no supported
\* team is never left pending: it has rejected with the unsupported-team
\* error, having issued no request, called no loader, neither read nor
\* written the model cache, and returned no model (no fallback either).
C5_UnsupportedTeamFailsFast ==
    \A c \in Calls : \A r \in {calls[c], settled[c]} :
        (Started(r) /\ UnsupportedInput(r)) =>
            /\ r.pc = "done"
            /\ r.result.status = "rejected"
            /\ r.result.error = "Unsupported team name or code"
            /\ r.result.model = NoModel
            /\ r.requests = {} /\ r.loaderCalls = {}
            /\ ~r.cacheRead /\ ~r.cacheWritten

C5_Witness ==
    \E c \in Calls :
        /\ settled[c].pc = "done" /\ UnsupportedInput(settled[c])
        /\ settled[c].result.status = "rejected"
        /\ \E k \in CacheKeys : localStorage[k].kind = "corrupt"

\* The same for fetchLiveGameSnapshot: an unsupported team rejects before
\* any request is issued.
LiveUnsupportedTeamFailsFast ==
    (live.outcome # "none"
       /\ (findTeamByNameOrCode(liveInput.homeTeamName) = 0
             \/ findTeamByNameOrCode(liveInput.awayTeamName) = 0))
    => (live.outcome = "rejected" /\ live.requests = <<>>)

\* C6: for supported teams buildSquareOdds never rejects; every error after
\* team resolution becomes the 23/21 fallback result.
C6_NeverRejectsForSupportedTeams ==
    \A c \in Calls :
        (settled[c].pc = "done" /\ ~UnsupportedInput(settled[c])) =>
            settled[c].result.status = "resolved"

\* C7: a call for supported teams (with labels the board mapping accepts)
\* that found no cached entry and whose games dataset failed to load resolves
\* with sourceMode "baseline", sourcesUsed exactly <<"fallback_model">> and at
\* least one warning.
C7_AllSourcesDownYieldsFallback ==
    \A c \in Calls :
        LET r == settled[c]
        IN  (r.pc = "done" /\ r.gamesOutcome = "fail" /\ LabelsMappable(r)) =>
                /\ r.result.status = "resolved"
                /\ r.result.model.sourceMode = "baseline"
                /\ r.result.model.sourcesUsed = <<"fallback_model">>
                /\ r.result.model.warnings # <<>>
                /\ r.served.kind = "none"

C7_Witness ==
    \E c \in Calls :
        /\ settled[c].pc = "done" /\ settled[c].gamesOutcome = "fail"
        /\ LabelsMappable(settled[c])
        /\ settled[c].result.status = "resolved"

\* C8: fetchLiveGameSnapshot resolves to null only when the provider was
\* reached (some request it issued was answered); when every request fails
\* it rejects.
ProviderReached ==
    \/ liveInput.sb1.kind # "fail"
    \/ (Len(live.requests) >= 2 /\ liveInput.sb2.kind # "fail")
    \/ (Len(live.requests) >= 3 /\ liveInput.summary.kind # "fail")

C8_NullOnlyWhenProviderReached ==
    live.outcome = "null" => ProviderReached

\* C9: the model of one matchup key is computed by at most one call at a
\* time (so overlapping calls return the same model).
C9_OneComputationPerKey ==
    \A c1 \in Calls, c2 \in Calls :
        (c1 # c2 /\ Computing(c1) /\ Computing(c2)) => calls[c1].key # calls[c2].key

\* C10: an entry written at time t is served only while now < t + 30 min
\* (from the memory layer or the persistent one), and a read that finds the
\* persistent entry past its expiry removes it.
ServedWithinTtl ==
    \A c \in Calls :
        LET r == settled[c]
        IN  (r.pc = "done" /\ r.served.kind = "entry") =>
                /\ r.servedAt < r.served.value.generatedAt + MODEL_CACHE_TTL_MS
                /\ r.served.expiresAt = r.served.value.generatedAt + MODEL_CACHE_TTL_MS
                /\ r.result.model.generatedAt = r.served.value.generatedAt
                       \/ ~LabelsMappable(r)

ReadOf(k) ==
    \E c \in Calls :
        \/ settled'[c].pc = "done" /\ settled'[c].cacheRead /\ ~settled'[c].cacheWritten
             /\ settled'[c].key = k
        \/ calls[c].pc = "idle" /\ calls'[c].pc # "idle" /\ calls'[c].key = k

ExpiredEntryRemovedByRead ==
    \A k \in CacheKeys :
        ( /\ localStorage[k].kind = "entry" /\ localStorage[k].expiresAt <= now
          /\ ~(modelMemoryCache[k].kind = "entry" /\ modelMemoryCache[k].expiresAt > now)
          /\ ReadOf(k) )
        => localStorage'[k].kind = "none"

C10_TtlBoundsServing == []ServedWithinTtl /\ [][ExpiredEntryRemovedByRead]_vars

\* A call missed although both layers held the matchup's entry: the memory
\* layer still holds it, expired, and the read removed the persistent copy.
C10_Witness ==
    \E c \in Calls : \E k \in CacheKeys :
        /\ calls[c].pc = "awaitGames" /\ calls[c].key = k
        /\ modelMemoryCache[k].kind = "entry" /\ modelMemoryCache[k].expiresAt <= now
        /\ localStorage[k].kind = "none"
        /\ gamesPromise = "pending"

----------------------------------------------------------------------------
(* Claims about the App's effects *)

Active(inst) == ~inst.cancelled
ActivePolls(p) == SelectSeq(p, Active)
ActiveTimer == \E i \in DOMAIN polls : Active(polls[i]) /\ polls[i].timer # NoTimer
ActiveInFlight == \E i \in DOMAIN polls : Active(polls[i]) /\ polls[i].inFlight

\* C1: at any moment at most one fetchLiveGameSnapshot request started by the
\* poll loop is in flight, the requests of torn-down effect instances that
\* have not settled yet included.
C1_AtMostOnePollInFlight ==
    Cardinality({i \in DOMAIN polls : polls[i].inFlight}) <= 1

\* C2: a pre-game computation or live poll that settles after its effect
\* instance was torn down applies nothing: the step leaves the React state
\* and the running poll instance as they were, and a cancelled instance
\* never holds a timer.
C2_CancelledOutcomeDiscarded ==
    /\ [](\A i \in DOMAIN polls : polls[i].cancelled => polls[i].timer = NoTimer)
    /\ [][ lastStep' \in {"oddsDiscarded", "pollDiscarded"}
              => /\ app' = app
                 /\ ActivePolls(polls') = ActivePolls(polls)
                 /\ Len(polls') <= Len(polls) ]_vars

\* A stale poll outcome has just been dropped while a newer instance of the
\* poll effect is running.
C2_Witness ==
    /\ lastStep = "pollDiscarded"
    /\ ActivePolls(polls) # <<>>

\* An active poll instance has exactly one of a request in flight and a
\* pending timer.
OneCycleAhead(inst) == Active(inst) => (inst.inFlight # (inst.timer # NoTimer))

\* C3: while a poll effect instance is active, every completed cycle
\* (snapshot, null or error) leaves exactly one next cycle scheduled: the
\* instance never has neither a pending timer nor a request in flight, and
\* with timers firing and requests settling a pending timer always leads to
\* the next request, and a request to the next timer, unless the effect is
\* torn down or re-run first.
C3_PollLoopNeverStalls ==
    /\ [](\A i \in DOMAIN polls : OneCycleAhead(polls[i]))
    /\ ActiveTimer ~> (ActiveInFlight \/ ActivePolls(polls) = <<>>)
    /\ ActiveInFlight
          ~> (ActiveTimer \/ ActivePolls(polls) = <<>> \/ lastStep = "pollEffect")

\* An active instance whose last cycle ended in the catch block waits on its
\* retry timer.
C3_Witness ==
    \E i \in DOMAIN polls :
        /\ Active(polls[i])
        /\ polls[i].failureCount = 1
        /\ polls[i].timer = RetryDelay(1)
        /\ app.liveFeedError # ""

\* C4: after k consecutive failed poll cycles (the cycle threw, or every
\* request of its fetch failed on the network) the pending retry delay is
\* min(60 s, 12 s + k * 8 s), and the failure count is zero after a cycle
\* that did not fail.
C4_RetryDelayGrowsWithFailures ==
    \A i \in DOMAIN polls :
        Active(polls[i]) /\ polls[i].timer # NoTimer =>
            /\ (polls[i].failedCycles >= 1 /\ polls[i].failedCycles < MaxFailedCycles)
                  => polls[i].timer = RetryDelay(polls[i].failedCycles)
            /\ polls[i].failedCycles = MaxFailedCycles
                  => /\ polls[i].timer >= RetryDelay(MaxFailedCycles)
                     /\ polls[i].timer <= 60000
            /\ polls[i].failedCycles = 0 => polls[i].failureCount = 0

----------------------------------------------------------------------------
(* Claims about cached models *)

CacheHit(r) == Started(r) /\ r.served.kind = "entry"

\* C11: a buildSquareOdds call served from the cache (labels the board
\* mapping accepts) asks no loader and issues no request, was keyed by its
\* team codes alone, returns the cached model unchanged, and returns the
\* cached digit matrix laid out under the caller's own labels; the entry
\* stays in the cache for the next caller.
C11_CacheHitRemapsLabels ==
    \A c \in Calls :
        CacheHit(settled[c]) /\ LabelsMappable(settled[c]) =>
            /\ settled[c].loaderCalls = {} /\ settled[c].requests = {}
            /\ ~settled[c].cacheWritten
            /\ settled[c].key = <<resolveTeamCode(settled[c].homeTeamName),
                                  resolveTeamCode(settled[c].awayTeamName)>>
            /\ settled[c].result.status = "resolved"
            /\ settled[c].result.model = settled[c].served.value
            /\ settled[c].result.boardPercentages.matrix
                  = settled[c].served.value.digitProbabilities
            /\ settled[c].result.boardPercentages.rowLabels = settled[c].rowLabels
            /\ settled[c].result.boardPercentages.colLabels = settled[c].colLabels
            /\ modelMemoryCache[settled[c].key] = settled[c].served

\* A call with shuffled labels was served a model another call computed.
C11_Witness ==
    \E c \in Calls :
        /\ CacheHit(settled[c])
        /\ settled[c].rowLabels = ShuffledLabels
        /\ settled[c].result.status = "resolved"
        /\ settled[c].result.boardPercentages.rowLabels = ShuffledLabels

\* A read of key k that found an unparseable payload removed it and left the
\* reading call computing a fresh model.
CorruptEvictedByRead ==
    \A k \in CacheKeys :
        ( /\ localStorage[k] = CorruptPayload
          /\ ~(modelMemoryCache[k].kind = "entry" /\ modelMemoryCache[k].expiresAt > now)
          /\ ReadOf(k) )
        => /\ localStorage'[k] = NoEntry
           /\ \E c \in Calls :
                 /\ calls[c].pc = "idle"
                 /\ calls'[c].pc \in {"awaitGames", "awaitSecondary"}
                 /\ calls'[c].key = k /\ calls'[c].evicted = "corrupt"

\* A call whose read evicted a payload computes: it settles with the model
\* buildSmartDigitModel returned and has written it to the cache.
EvictingCallComputes ==
    \A c \in Calls :
        /\ Computing(c) => localStorage[calls[c].key] # CorruptPayload
        /\ (settled[c].pc = "done" /\ settled[c].evicted = "corrupt"
              /\ LabelsMappable(settled[c]))
           => /\ settled[c].cacheWritten
              /\ settled[c].result.status = "resolved"
              /\ "loadGames" \in settled[c].loaderCalls
              /\ \A i \in DOMAIN settled[c].result.model.warnings :
                    settled[c].result.model.warnings[i] # WarnSourcesUnavailable
              /\ localStorage[settled[c].key] # CorruptPayload

\* C12: a read that finds an unparseable payload under the matchup key
\* removes it and counts as a miss: the call goes on to compute a fresh
\* model (it does not return the catch block's fallback) and the payload is
\* not in the store afterwards.
C12_CorruptPayloadEvicted ==
    []EvictingCallComputes /\ [][CorruptEvictedByRead]_vars

\* A call that evicted an unparseable payload settled with a full model.
C12_Witness ==
    \E c \in Calls :
        /\ settled[c].pc = "done" /\ settled[c].evicted = "corrupt"
        /\ settled[c].result.model.sourceMode = "full"
        /\ localStorage[settled[c].key].kind = "entry"

----------------------------------------------------------------------------
(* Claims about the realtime engine *)

Invocation(i) == engine.invocations[i]
Invoked == DOMAIN engine.invocations

\* C13: two invocations of buildRealtimeSquareOdds on the same base model,
\* snapshot and labels return the same output in every field, generatedAt
\* included, whenever they are made.
C13_RealtimeDeterministic ==
    \A i, j \in Invoked :
        Invocation(i).snapshot = Invocation(j).snapshot
            => Invocation(i).result = Invocation(j).result

Digits == 0 .. 9
Indices == 1 .. DIGIT_COUNT
Over(snapshot) == snapshot.status \in {"final", "postponed"}

\* C14: for a final or postponed snapshot the engine returns the digit matrix
\* whose only nonzero entry is 1 at (homeScore mod 10, awayScore mod 10),
\* whatever the base model, expected points equal to the snapshot's scores,
\* and a board with 100 at the cell whose row label is the home digit and
\* whose column label is the away digit and 0 everywhere else.
C14_FinalIsSingleCell ==
    \A i \in Invoked :
        LET snapshot == Invocation(i).snapshot
            result == Invocation(i).result
            homeDigit == snapshot.homeScore % 10
            awayDigit == snapshot.awayScore % 10
            values == BoardValues(result.boardPercentages)
        IN  Over(snapshot) /\ result.status = "resolved" =>
              /\ \A r \in Digits, c \in Digits :
                    MatrixCell(result.model.digitProbabilities, r, c)
                        = IF r = homeDigit /\ c = awayDigit THEN 1 ELSE 0
              /\ result.model.expectedHomePoints = snapshot.homeScore
              /\ result.model.expectedAwayPoints = snapshot.awayScore
              /\ \A x \in Indices, y \in Indices :
                    values[<<x, y>>]
                        = IF engine.rowLabels[x] = homeDigit
                             /\ engine.colLabels[y] = awayDigit
                          THEN 100 ELSE 0

\* A 14-10 final under row labels 5,0,1,2,3,4,6,7,8,9 on the blended base
\* model: all of the board is in the row labelled 4 and the column labelled 0.
C14_Witness ==
    \E i \in Invoked :
        /\ Invocation(i).snapshot = Snapshot("final", 4, 0, 14, 10)
        /\ engine.rowLabels = ShuffledLabels
        /\ engine.baseModel.model.digitProbabilities = BlendedMatrix
        /\ Invocation(i).result.status = "resolved"
        /\ BoardCell(Invocation(i).result.boardPercentages, 6, 1) = 100

Distinct(sources) == { sources[k] : k \in DOMAIN sources }

\* C15: in every result the engine returns, sourceMode is "full" exactly when
\* sourcesUsed holds at least 3 distinct sources, and "baseline" otherwise.
C15_SourceModeCountsSources ==
    \A i \in Invoked :
        LET model == Invocation(i).result.model
        IN  Invocation(i).result.status = "resolved" =>
              /\ model.sourceMode \in {"full", "baseline"}
              /\ model.sourceMode = "full"
                    <=> Cardinality(Distinct(model.sourcesUsed)) >= 3

----------------------------------------------------------------------------
(* Claims about the pre-game blend *)

SmartRan == smart.model # NoModel
Warned(message) ==
    \E k \in DOMAIN smart.model.warnings : smart.model.warnings[k] = message
Amount(cond, hundredths) == IF cond THEN hundredths ELSE 0

\* C16: whenever moneylines, team stats or recent form contribute nothing to
\* a pre-game computation, it still returns the blended model, the baseline
\* weight is raised by that source's share and the warnings name that
\* source; the baseline weight is raised only by shares whose warning is
\* there.
C16_MissingSourceWarned ==
    SmartRan =>
        /\ smart.model.digitProbabilities = BlendedMatrix
        /\ MarketMissing(smart.sec) =>
              Warned(WarnMoneylines) /\ smart.weights.baseline >= 45 + 2
        /\ StatsMissing(smart.sec) =>
              Warned(WarnEspnStats) /\ smart.weights.baseline >= 45 + 5
        /\ FormMissing(smart.sec) =>
              Warned(WarnRecentForm) /\ smart.weights.baseline >= 45 + 3
        /\ smart.weights.baseline
              = 45 + Amount(Warned(WarnEspnStats), 5)
                   + Amount(Warned(WarnRecentForm), 3)
                   + Amount(Warned(WarnMoneylines), 2)

\* C17: in each of the 8 combinations of missing team stats, recent form and
\* market probability the three weights are non-negative and sum to 1, they
\* are 45 / 35 / 20 hundredths with nothing missing, each missing input
\* moves exactly its own share to baseline (5 from sim, 3 from team, 2 from
\* sim), and neither the clamps nor the division by the total change them.
C17_BlendWeightsShiftToBaseline ==
    SmartRan =>
        LET w == smart.weights
            stats == Amount(StatsMissing(smart.sec), 5)
            form == Amount(FormMissing(smart.sec), 3)
            market == Amount(MarketMissing(smart.sec), 2)
        IN  /\ w.raw = [baseline |-> 45 + stats + form + market,
                        team |-> 35 - form, sim |-> 20 - stats - market]
            /\ w.clamped = w.raw
            /\ <<w.baseline, w.team, w.sim>>
                  = <<w.raw.baseline, w.raw.team, w.raw.sim>>
            /\ w.baseline >= 0 /\ w.team >= 0 /\ w.sim >= 0
            /\ w.baseline + w.team + w.sim = 100

\* All three inputs missing: 55 / 32 / 13.
C17_Witness ==
    /\ SmartRan
    /\ StatsMissing(smart.sec) /\ FormMissing(smart.sec) /\ MarketMissing(smart.sec)
    /\ <<smart.weights.baseline, smart.weights.team, smart.weights.sim>>
          = <<55, 32, 13>>

----------------------------------------------------------------------------
(* Claims about the live blend weight *)

\* C18: along a game progression with non-decreasing scores the live blend
\* weight of a later snapshot is never below that of an earlier one, and it
\* is 1 once the game is final.
C18_LiveWeightNeverDecreases ==
    \A i, j \in Invoked :
        /\ i < j /\ Later(Invocation(i).snapshot, Invocation(j).snapshot)
              => Invocation(j).liveBlendWeight >= Invocation(i).liveBlendWeight
        /\ Invocation(i).snapshot.status = "final"
              => Invocation(i).liveBlendWeight = WeightScale

ClockKnown(snapshot) == snapshot.secondsRemainingGame # Null

\* C19: the live blend weight is 0.2 for a pregame snapshot, 1 for a final or
\* postponed one, at least 0.9 for any other snapshot with at most 600
\* remaining game seconds, and within [0.36, 0.95] for every other snapshot.
C19_LiveWeightRanges ==
    \A i \in Invoked :
        LET snapshot == Invocation(i).snapshot
            weight == Invocation(i).liveBlendWeight
        IN  IF snapshot.status = "pregame" THEN weight = Weight(20)
            ELSE IF Over(snapshot) THEN weight = WeightScale
            ELSE IF ClockKnown(snapshot) /\ snapshot.secondsRemainingGame <= 600
            THEN weight >= Weight(90)
            ELSE weight >= Weight(36) /\ weight <= Weight(95)

\* C20: for a snapshot whose clock did not parse (both remaining-seconds
\* fields null) and that is not final or postponed, the engine's
\* remainingGameSeconds is not 0, whatever the period, and the poll interval
\* is not one of the late-game intervals.
C20_NullClockIsNotZero ==
    \A i \in Invoked :
        LET snapshot == Invocation(i).snapshot
            result == Invocation(i).result
        IN  /\ snapshot.secondsRemainingInPeriod = Null
            /\ ~ClockKnown(snapshot)
            /\ ~Over(snapshot)
            /\ result.status = "resolved"
            => /\ result.featureVector.remainingGameSeconds # 0
               /\ getLivePollIntervalMs(snapshot) \notin {5000, 8000}

----------------------------------------------------------------------------
(* Claims about matrix normalization *)

Normalized == norm.output # NoOutput
Degenerate(matrix) ==
    \/ \E c \in Cells : ~isFinite(matrix[c])
    \/ SumCells([c \in Cells |-> MaxWithZero(matrix[c])], Digits, Digits) <= 0

\* C22: every output of either normalizeMatrix has all 100 entries finite
\* and >= 0 and sums to 1, and an input that is all-zero, has a non-positive
\* total or holds a NaN or non-finite entry gives exactly the uniform 1/100
\* matrix.
C22_NormalizedOrUniform ==
    Normalized =>
        /\ \A c \in Cells :
              isFinite(norm.output.entries[c]) /\ norm.output.entries[c] >= 0
        /\ norm.output.total > 0
        /\ Total(norm.output.entries) = norm.output.total
        /\ Degenerate(norm.input) => norm.output = createUniformDigitMatrix

----------------------------------------------------------------------------
(* Claims about the board mapping *)

IsPermutation(labels) ==
    Len(labels) = DIGIT_COUNT /\ {labels[k] : k \in DOMAIN labels} = Digits

\* The board is the matrix under the labels: every percentage in [0, 100]
\* and 100 times the probability at (row label, column label), 100 in all.
BoardIsMatrixUnderLabels(board, matrix, rowLabels, colLabels) ==
    LET values == BoardValues(board)
    IN  /\ \A p \in Indices \X Indices :
              /\ values[p] >= 0 /\ values[p] <= 100
              /\ values[p] = Entry(matrix, rowLabels[p[1]], colLabels[p[2]])
        /\ SumCells(values, Indices, Indices) = 100

\* C21: for every matrix the pipeline produces and all label permutations,
\* the returned board has each cell in [0, 100], proportional to the digit
\* probability at (rowLabels[r], colLabels[c]), and sums to 100, on the
\* computed, cache-hit, fallback and realtime paths.
C21_BoardIsMatrixUnderLabels ==
    /\ \A c \in Calls :
          LET call == settled[c]
          IN  /\ call.result.status = "resolved"
              /\ IsPermutation(call.rowLabels) /\ IsPermutation(call.colLabels)
              => BoardIsMatrixUnderLabels(call.result.boardPercentages,
                                          call.result.model.digitProbabilities,
                                          call.rowLabels, call.colLabels)
    /\ \A i \in Invoked :
          /\ Invocation(i).result.status = "resolved"
          /\ IsPermutation(engine.rowLabels) /\ IsPermutation(engine.colLabels)
          => BoardIsMatrixUnderLabels(Invocation(i).result.boardPercentages,
                                      Invocation(i).result.model.digitProbabilities,
                                      engine.rowLabels, engine.colLabels)

\* A call served the catch block's fallback under shuffled row labels: the
\* board that skips finalizeBoardPercentages.
C21_Witness ==
    \E c \in Calls :
        /\ settled[c].result.status = "resolved"
        /\ settled[c].rowLabels = ShuffledLabels
        /\ settled[c].result.model.sourcesUsed = <<"fallback_model">>
        /\ ~settled[c].result.boardPercentages.finalized
        /\ BoardCell(settled[c].result.boardPercentages, 1, 1) = 0
        /\ BoardCell(settled[c].result.boardPercentages, 2, 1) = 6

----------------------------------------------------------------------------
(* Claims about the live feed *)

Scheduled == live.outcome = "snapshot" /\ pollTimer # 0

\* C23: getLivePollIntervalMs gives 5 s for in_progress with at most 480 s
\* remaining, 8 s with at most 1200 s, 12 s for any other in_progress, 20 s
\* at halftime, 45 s before the game and 60 s for every other status; within
\* in_progress the delay never grows as the remaining time shrinks.
C23_PollIntervalByStatus ==
    Scheduled =>
        LET status == live.core.status
            remaining == live.core.secondsRemainingGame
            known == remaining # Null
        IN  /\ pollTimer =
                  CASE status = "in_progress" /\ known /\ remaining <= 480 -> 5000
                    [] status = "in_progress" /\ known /\ remaining > 480
                         /\ remaining <= 1200 -> 8000
                    [] status = "in_progress" /\ (~known \/ remaining > 1200) -> 12000
                    [] status = "halftime" -> 20000
                    [] status = "pregame" -> 45000
                    [] OTHER -> 60000
            /\ \A earlier \in CoreSamples :
                  (/\ status = "in_progress" /\ known
                   /\ earlier.status = "in_progress"
                   /\ earlier.secondsRemainingGame # Null
                   /\ earlier.secondsRemainingGame >= remaining)
                  => getLivePollIntervalMs(earlier) >= pollTimer

\* The summary's core at exactly eight minutes was scheduled at 5 s.
C23_Witness ==
    /\ Scheduled /\ live.coreFrom = "summary"
    /\ live.core.status = "in_progress" /\ live.core.secondsRemainingGame = 480
    /\ pollTimer = 5000

\* The core the scoreboard loop of the call found, MissResponse if none.
LocatedCore ==
    LET homeTeamCode == resolveTeamCode(liveInput.homeTeamName)
        awayTeamCode == resolveTeamCode(liveInput.awayTeamName)
        first == findEventInScoreboard(liveInput.sb1, homeTeamCode, awayTeamCode,
                                       liveInput.eventIdOverride)
        second == findEventInScoreboard(liveInput.sb2, homeTeamCode, awayTeamCode,
                                        liveInput.eventIdOverride)
    IN  IF first.kind = "core" THEN first ELSE second

\* The call has run and its scoreboard loop located the event.
Located == live.outcome # "none" /\ LocatedCore.kind = "core"

\* The summary request was answered with the event of the requested teams.
SummaryHasCore ==
    /\ liveInput.summary.kind = "core"
    /\ resolveTeamCode(liveInput.homeTeamName) \in liveInput.summary.competitors
    /\ resolveTeamCode(liveInput.awayTeamName) \in liveInput.summary.competitors

NoPlays == live.plays = 0 /\ live.sentiment = "neutral"

\* C24: once the event is located, the snapshot's core is the summary's
\* whenever the summary call yields one and the scoreboard's whenever the
\* summary call fails; a summary failure never makes the result null or an
\* error; and only on a summary failure is the play list empty with neutral
\* sentiment.
C24_OnlySummaryFailureEmptiesPlays ==
    Located =>
        /\ live.outcome = "snapshot"
        /\ SummaryHasCore =>
              live.core = liveInput.summary.parsed /\ live.coreFrom = "summary"
        /\ liveInput.summary.kind = "fail" =>
              live.core = LocatedCore /\ live.coreFrom = "scoreboard"
        /\ NoPlays <=> liveInput.summary.kind = "fail"

\* C24 as the code has it: the same, with the play list empty and the
\* sentiment neutral on a summary failure and also whenever the summary
\* payload carries no play.
C24_SummaryPreferredScoreboardFallback ==
    Located =>
        /\ live.outcome = "snapshot"
        /\ SummaryHasCore =>
              live.core = liveInput.summary.parsed /\ live.coreFrom = "summary"
        /\ liveInput.summary.kind = "fail" =>
              live.core = LocatedCore /\ live.coreFrom = "scoreboard"
        /\ NoPlays <=>
              (liveInput.summary.kind = "fail" \/ liveInput.summary.plays = 0)

\* The scoreboard located the game in progress and the summary request
\* failed: the snapshot is the scoreboard's, without plays.
C24_Witness ==
    /\ Located /\ liveInput.summary.kind = "fail"
    /\ live.outcome = "snapshot" /\ live.coreFrom = "scoreboard"
    /\ live.core.status = "in_progress" /\ NoPlays

\* C25: under an event-id override the call returns the snapshot of that
\* event whether or not the event's competitors carry the requested team
\* codes: when the summary of the overridden event is answered, the outcome
\* is a snapshot.
C25_OverrideBypassesTeamMatching ==
    (/\ live.outcome # "none"
     /\ ~UnsupportedInput(liveInput)
     /\ liveInput.eventIdOverride # NoOverride
     /\ liveInput.summary.kind = "core"
     /\ liveInput.summary.eventId = liveInput.eventIdOverride)
    => live.outcome = "snapshot"

----------------------------------------------------------------------------
(* Claims about the board state *)

\* C26: in every reachable board state (initial, shuffled, reset, loaded
\* from storage or received from the server) rowLabels and colLabels are
\* each a permutation of the digits 0-9, so the board mapping accepts them.
C26_LabelsArePermutations ==
    /\ IsPermutation(app.rowLabels) /\ IsPermutation(app.colLabels)
    /\ MapLabelError(app.rowLabels, app.colLabels) = ""

----------------------------------------------------------------------------
(* Claims about degraded models and loaders *)

\* C27: a degraded model is not retained past the failure that caused it:
\* a buildSquareOdds call answered from the cache within the 30 minutes
\* never returns the simulation-only fallback that an earlier call computed
\* when the games dataset failed to load.
C27_FallbackNotServedFromCache ==
    \A c \in Calls :
        (/\ settled[c].pc = "done" /\ settled[c].result.status = "resolved"
         /\ settled[c].served.kind = "entry")
        => settled[c].result.model.sourcesUsed # <<"fallback_model">>

\* C28: every entry readCachedEntry returns carries an expiresAt greater
\* than the current time and a model value; a payload that parses but lacks
\* them is neither returned nor copied into the in-memory cache.
C28_ReturnedEntriesAreValid ==
    /\ \A c \in Calls :
          (settled[c].pc = "done" /\ settled[c].served.kind # "none") =>
              /\ settled[c].served.kind = "entry"
              /\ settled[c].served.expiresAt > settled[c].servedAt
              /\ settled[c].served.value # NoModel
    /\ \A k \in CacheKeys : modelMemoryCache[k].kind \in {"none", "entry"}

\* C29: no memoized loader retains a failure: a call made after the
\* loader's request has failed issues a new request instead of replaying the
\* failed (or null) outcome, and callers overlapping one request in flight
\* share it.
C29_NoLoaderRetainsFailure ==
    /\ loader.lastCall # "replayedNull"
    /\ loader.lastCall = "shared" =>
          /\ loader.memo = "pending" /\ loader.waiting >= 2
          /\ loader.requests < loader.calls

----------------------------------------------------------------------------
(* Claims about the displayed odds *)

\* activeSquareOdds: the realtime result if present, else the pre-game one.
activeSquareOdds ==
    IF app.realtimeSquareOdds.status = "resolved" THEN app.realtimeSquareOdds
    ELSE app.squareOdds

\* C30: whenever the locked board exposes an odds board for rendering, that
\* board was mapped with the row and column labels now in state; after a
\* label change no board mapped with the previous labels stays selected
\* while the recomputation is pending.
C30_DisplayedBoardUsesCurrentLabels ==
    (app.isLocked /\ ~app.gameResult /\ activeSquareOdds.status = "resolved") =>
        /\ activeSquareOdds.boardPercentages.rowLabels = app.rowLabels
        /\ activeSquareOdds.boardPercentages.colLabels = app.colLabels

====
